---- MODULE Spec2Model ----
(***************************************************************************)
(* A model of the astrotime crate: Duration, Instant, the leap second      *)
(* table, the Gregorian/Julian calendar algorithm and DateTime.            *)
(*                                                                         *)
(* Numbers.  The crate computes in i64; TLC's integers are 32 bits wide.   *)
(* Every i64 quantity that can leave the 32 bit range (seconds, day        *)
(* numbers, computational years) is held as a "wide" value <<h, l>> that   *)
(* stands for h * WB + l with 0 <= l < WB, and the W* operators below are   *)
(* exact integer arithmetic on such values.  The sub-second part of a      *)
(* Duration is counted in units of 10^15 attoseconds, so that one second   *)
(* is ATTOS_PER_SEC_I64 = 1000 units; the crate only adds, subtracts,      *)
(* compares and divides attoseconds by ATTOS_PER_SEC, which is exact on    *)
(* whole units.                                                            *)
(***************************************************************************)
EXTENDS Integers, Sequences, FiniteSets, TLC

\* ------------------------------------------------------------------------
\* Exact wide integer arithmetic
\* ------------------------------------------------------------------------

WB == 1000 * 1000

WNorm(h, l) == <<h + (l \div WB), l % WB>>

\* the wide value of a 32 bit integer
WInt(n) == WNorm(0, n)

\* the wide value of the decimal number whose digits are "hi" followed by the
\* six digits of "lo" (WDec(2272, 60800) is 2272060800)
WDec(hi, lo) == WNorm(hi, lo)

\* the integer a wide value stands for, when it lies in the 32 bit range
WToInt(a) == IF a[1] < 0 THEN (a[1] + 1) * WB + (a[2] - WB) ELSE a[1] * WB + a[2]

WAdd(a, b) == WNorm(a[1] + b[1], a[2] + b[2])

WSub(a, b) == WNorm(a[1] - b[1], a[2] - b[2])

WNeg(a) == WNorm(-a[1], -a[2])

WLt(a, b) == a[1] < b[1] \/ (a[1] = b[1] /\ a[2] < b[2])

WLe(a, b) == ~WLt(b, a)

WIsNeg(a) == a[1] < 0

WIsPos(a) == a[1] > 0 \/ (a[1] = 0 /\ a[2] > 0)

\* a * k for a small integer k (|k| <= 2000)
WMul(a, k) == WNorm(a[1] * k, a[2] * k)

\* floor(a / k) and a - k * floor(a / k), for 1 <= k <= 2000
WFloorDiv(a, k) == <<a[1] \div k, ((a[1] % k) * WB + a[2]) \div k>>

WFloorMod(a, k) == ((a[1] % k) * WB + a[2]) % k

\* Rust's a / k on i64 (the quotient is truncated towards zero), for
\* 1 <= k <= 2000
WDiv(a, k) ==
    IF WIsNeg(a) /\ WFloorMod(a, k) # 0
    THEN WAdd(WFloorDiv(a, k), WInt(1))
    ELSE WFloorDiv(a, k)

\* Rust's y >> 63 on i64: -1 for a negative y, 0 otherwise
WShr63(a) == IF WIsNeg(a) THEN WInt(-1) ELSE WInt(0)

\* the range of i32
I32_MAX == 2147483647

I32_MIN == -I32_MAX - 1

\* Rust's a / b and a % b on integers of the 32 bit range, b > 0
Div(a, b) == IF a < 0 /\ a % b # 0 THEN (a \div b) + 1 ELSE a \div b

Rem(a, b) == a - b * Div(a, b)

\* "let x = v;" followed by the rest of the function body is written
\* Let([x \in {v} |-> body]): the value of the function at its one argument
Let(f) == CHOOSE r \in UNION {{g[x] : x \in DOMAIN g} : g \in {f}} : TRUE

\* Results of fallible functions: Ok(v), Err(Error::RangeError), a panic (a failed
\* assertion or unwrap), and "no value yet"
Ok(v) == [tag |-> "Ok", val |-> v]

RangeError == [tag |-> "RangeError", val |-> <<>>]

Panic == [tag |-> "panic", val |-> <<>>]

None == [tag |-> "none", val |-> <<>>]

IsOk(r) == r.tag = "Ok"

\* ------------------------------------------------------------------------
\* lib.rs, duration.rs
\* ------------------------------------------------------------------------

\* one second in sub-second units (a unit is 10^15 attoseconds)
ATTOS_PER_SEC_I64 == 1000

\* n * 10^15 attoseconds in sub-second units
Millis(n) == n * (ATTOS_PER_SEC_I64 \div 1000)

\* lib.rs divmod_i64: (a.div_euclid(b), a.rem_euclid(b)) for b > 0
divmod_i64(a, b) == <<a \div b, a % b>>

\* A Duration is [secs |-> wide, attos |-> integer]; Dur builds the struct
\* literally, without normalizing
Dur(secs, attos) == [secs |-> secs, attos |-> attos]

\* the carry of whole seconds alone, without the repair of the signs
normalize_without_sign_repair(d) ==
    Dur(WAdd(d.secs, WInt(Div(d.attos, ATTOS_PER_SEC_I64))), Rem(d.attos, ATTOS_PER_SEC_I64))

normalize(d) ==
    Let([secs1 \in {WAdd(d.secs, WInt(Div(d.attos, ATTOS_PER_SEC_I64)))} |->
    Let([attos1 \in {Rem(d.attos, ATTOS_PER_SEC_I64)} |->
      IF WIsNeg(secs1) /\ attos1 > 0
      THEN Dur(WAdd(secs1, WInt(1)), attos1 - ATTOS_PER_SEC_I64)
      ELSE IF WIsPos(secs1) /\ attos1 < 0
           THEN Dur(WSub(secs1, WInt(1)), attos1 + ATTOS_PER_SEC_I64)
           ELSE Dur(secs1, attos1)])])

Duration_new(secs, attos) == normalize(Dur(secs, attos))

Duration_neg(d) == Dur(WNeg(d.secs), -d.attos)

Duration_add(a, b) == normalize(Dur(WAdd(a.secs, b.secs), a.attos + b.attos))

Duration_sub(a, b) == normalize(Dur(WSub(a.secs, b.secs), a.attos - b.attos))

\* the derived Ord of Duration (and of Instant, which wraps one Duration):
\* secs first, then attos
Duration_lt(a, b) == WLt(a.secs, b.secs) \/ (a.secs = b.secs /\ a.attos < b.attos)

Duration_ge(a, b) == ~Duration_lt(a, b)

\* ------------------------------------------------------------------------
\* epoch.rs: an Instant is the Duration since Epoch::TimeStandard
\* ------------------------------------------------------------------------

Epoch_JulianPeriod == Dur(WNeg(WDec(211087, 684832)), -Millis(184))

Epoch_JulianCalendar == Dur(WNeg(WDec(62356, 694432)), -Millis(184))

Epoch_GregorianCalendar == Dur(WNeg(WDec(62356, 521632)), -Millis(184))

Epoch_Ntp == Dur(WNeg(WDec(2429, 913591)), 0)

Epoch_Unix == Dur(WNeg(WDec(220, 924791)), 0)

Epoch_TimeStandard == Dur(WInt(0), 0)

Epoch_Y1977 == Dur(WInt(16), 0)

Epoch_Y2k == Dur(WDec(725, 760032), 0)

\* instant.rs: Instant + Duration, Instant - Duration, Instant - Instant
Instant_add(i, d) == Duration_add(i, d)

Instant_sub(i, d) == Duration_sub(i, d)

\* ------------------------------------------------------------------------
\* leaps.rs
\* ------------------------------------------------------------------------

IANA_NTP_LEAP_SECONDS ==
    << WDec(2272, 60800), WDec(2287, 785600), WDec(2303, 683200), WDec(2335, 219200),
       WDec(2366, 755200), WDec(2398, 291200), WDec(2429, 913600), WDec(2461, 449600),
       WDec(2492, 985600), WDec(2524, 521600), WDec(2571, 782400), WDec(2603, 318400),
       WDec(2634, 854400), WDec(2698, 12800), WDec(2776, 982400), WDec(2840, 140800),
       WDec(2871, 676800), WDec(2918, 937600), WDec(2950, 473600), WDec(2982, 9600),
       WDec(3029, 443200), WDec(3076, 704000), WDec(3124, 137600), WDec(3345, 62400),
       WDec(3439, 756800), WDec(3550, 89600), WDec(3644, 697600), WDec(3692, 217600) >>

\* the table entry itself, without the leap seconds elapsed
leap_instant_without_leaps(n) ==
    Instant_add(Epoch_Ntp, Duration_new(IANA_NTP_LEAP_SECONDS[n], 0))

\* the n-th Instant (n = self.i + 1) that LeapInstantIter::next yields
leap_instant(n) ==
    Instant_add(Epoch_Ntp, Duration_new(WAdd(IANA_NTP_LEAP_SECONDS[n], WInt(n)), 0))

\* the loop of leap_seconds_elapsed_at, entered at the n-th leap instant with
\* "count" leaps counted so far
RECURSIVE leap_count_from(_, _, _)
leap_count_from(i, n, count) ==
    IF n > Len(IANA_NTP_LEAP_SECONDS) THEN count
    ELSE IF Duration_ge(i, leap_instant(n))
         THEN leap_count_from(i, n + 1, count + 1)
         ELSE count

leap_seconds_elapsed_at(i) == leap_count_from(i, 1, 0)

\* ------------------------------------------------------------------------
\* calendar.rs
\* ------------------------------------------------------------------------

Calendars == {"Gregorian", "Julian"}

is_gregorian(C) == C = "Gregorian"

is_year_leap(C, year) ==
    IF is_gregorian(C)
    THEN (Rem(year, 4) = 0) /\ ((Rem(year, 100) # 0) \/ (Rem(year, 400) = 0))
    ELSE Rem(year, 4) = 0

\* month is a u8 in 1..12 (the function asserts it)
month_days(C, month, year) ==
    CASE month \in {1, 3, 5, 7, 8, 10, 12} -> 31
      [] month = 2 -> IF is_year_leap(C, year + ((month - 1) \div 12)) THEN 29 ELSE 28
      [] month \in {4, 6, 9, 11} -> 30

\* year: i32, month: u8, day: i64 (wide).  The result is a wide day number.
day_number(C, year, month, day) ==
    IF month < 1 \/ month > 12 THEN RangeError
    ELSE
      Let([m0 \in {((month - 1) + 10) % 12} |->
      Let([d0 \in {WSub(day, WInt(1))} |->
      Let([y \in {WSub(WInt(year), WInt(m0 \div 10))} |->
      Let([base \in {WAdd(WAdd(WAdd(WAdd(WMul(y, 365), WDiv(y, 4)), WShr63(y)),
                                WInt((m0 * 306 + 5) \div 10)), d0)} |->
        IF is_gregorian(C)
        THEN Ok(WSub(WAdd(WSub(base, WDiv(y, 100)), WDiv(y, 400)), WInt(306)))
        ELSE Ok(WSub(base, WInt(306)))])])])])

\* the least and greatest day number from_day_number accepts
day_number_min(C) ==
    IF is_gregorian(C) THEN WNeg(WDec(784352, 296671)) ELSE WNeg(WDec(784368, 402798))

\* the greatest day number of the Julian calendar, for both calendars
day_number_max_of_julian(C) == WDec(784368, 402065)

day_number_max(C) ==
    IF is_gregorian(C) THEN WDec(784352, 295938) ELSE WDec(784368, 402065)

days_in_year_times_10000(C) == IF is_gregorian(C) THEN 3652425 ELSE 3652500

\* floor(w / D) and the remainder, for a wide w and 2000 < D < 2^24:
\* w = h * 100 * 100 * 100 + l is divided limb by limb
BigDivStep100(s, D) == <<s[1] * 100 + (s[2] * 100) \div D, (s[2] * 100) % D>>

BigDivMod(w, D) ==
    Let([s3 \in {BigDivStep100(BigDivStep100(BigDivStep100(<<w[1] \div D, w[1] % D>>, D), D), D)}
         |-> <<s3[1] + (s3[2] + w[2]) \div D, (s3[2] + w[2]) % D>>])

\* Rust's (10_000 * day_number + 14780) / days_in_year_times_10000 on i64,
\* evaluated without forming the product: with day_number = a * D + b and
\* 100 * b = q1 * D + r1 the numerator is
\*    (10000 * a + 100 * q1) * D + (100 * r1 + 14780)
year_estimate(dn, D) ==
    Let([ab \in {BigDivMod(dn, D)} |->
    Let([q1 \in {(100 * ab[2]) \div D} |->
    Let([t \in {100 * ((100 * ab[2]) % D) + 14780} |->
    Let([floorq \in {WAdd(WMul(WMul(WInt(ab[1]), 100), 100), WInt(100 * q1 + t \div D))} |->
      IF WLt(dn, WInt(-1)) /\ t % D # 0 THEN WAdd(floorq, WInt(1)) ELSE floorq])])])])

calc_remaining_days(C, dn, offset_year) ==
    Let([zeroeth_year \in {WShr63(offset_year)} |->
    Let([remaining_days \in
           {WSub(WSub(WSub(dn, WMul(offset_year, 365)), WDiv(offset_year, 4)), zeroeth_year)} |->
      IF is_gregorian(C)
      THEN WSub(WAdd(remaining_days, WDiv(offset_year, 100)), WDiv(offset_year, 400))
      ELSE remaining_days])])

\* The result is Ok(<<year, month, day>>), RangeError, or a panic when one of
\* the function's assertions fails.

from_day_number(C, day_number_in) ==
    IF WLt(day_number_in, day_number_min(C)) \/ WLt(day_number_max(C), day_number_in)
    THEN RangeError
    ELSE
      Let([dn \in {WAdd(day_number_in, WInt(306))} |->
      Let([est \in {year_estimate(dn, days_in_year_times_10000(C))} |->
      Let([rd0 \in {calc_remaining_days(C, dn, est)} |->
      Let([offset_year \in {IF WIsNeg(rd0) THEN WSub(est, WInt(1)) ELSE est} |->
      Let([remaining_days \in
             {WToInt(IF WIsNeg(rd0) THEN calc_remaining_days(C, dn, offset_year) ELSE rd0)} |->
      Let([offset_month \in {Div(100 * remaining_days + 52, 3060)} |->
      Let([year \in {WAdd(offset_year, WInt(Div(offset_month + 2, 12)))} |->
      Let([month \in {Rem(offset_month + 2, 12)} |->
      Let([day \in {remaining_days - Div(offset_month * 306 + 5, 10)} |->
        IF month >= 0 /\ month < 12 /\ day < 31 /\ day >= 0
        THEN Ok(<<WToInt(year), month + 1, day + 1>>)
        ELSE Panic])])])])])])])])])

\* ------------------------------------------------------------------------
\* standard.rs: the offset of each standard from TT (the calendar epochs are
\* in TT).  TT, TAI and UTC have no rate factor (tt_scale is None).
\* ------------------------------------------------------------------------

Standards == {"TT", "TAI", "UTC"}

tt_offset(S) ==
    CASE S = "TT" -> Duration_new(WInt(0), 0)
      [] S = "TAI" -> Duration_new(WInt(32), Millis(184))
      [] S = "UTC" -> Duration_new(WInt(32 + 9), Millis(184))

\* ------------------------------------------------------------------------
\* date_time.rs: the packed word is the set of the positions of its 1 bits
\* ------------------------------------------------------------------------

YEAR_BITS == 32 .. 63
SECOND_BITS == 26 .. 31
MINUTE_BITS == 20 .. 25
HOUR_BITS == 15 .. 19
DAY0_BITS == 10 .. 14
MONTH0_BITS == 0 .. 3

YEAR_OFFSET == 32
SECOND_OFFSET == 26
MINUTE_OFFSET == 20
HOUR_OFFSET == 15
DAY0_OFFSET == 10
MONTH0_OFFSET == 0

\* "n as u64" for an i32, u8 or small non-negative n: the cast sign-extends
U64(n) == {i \in 0 .. 63 : IF i < 31 THEN (n \div (2 ^ i)) % 2 = 1 ELSE n < 0}

RECURSIVE BitsValue(_)
BitsValue(V) ==
    IF V = {} THEN 0
    ELSE LET b == CHOOSE x \in V : TRUE IN (2 ^ b) + BitsValue(V \ {b})

\* "v as u8" and "v as i32" for a u64 v
AsU8(V) == BitsValue(V \cap (0 .. 7))

AsI32(V) == BitsValue(V \cap (0 .. 30)) + (IF 31 \in V THEN I32_MIN ELSE 0)

Shl(V, k) == {b + k : b \in V} \cap (0 .. 63)

Shr(V, k) == {b - k : b \in V} \cap (0 .. 63)

\* a pack that zeroes the whole word, not the bits of the field only
pack_clearing_the_word(packed, bits, offset, value) == Shl(value, offset)

pack(packed, bits, offset, value) == (packed \ bits) \cup Shl(value, offset)

pack_without_clearing(packed, offset, value) == packed \cup Shl(value, offset)

unpack(packed, bits, offset) == Shr(packed \cap bits, offset)

new_unchecked(year, month, day, hour, minute, second, attosecond) ==
    LET p1 == pack_without_clearing({}, YEAR_OFFSET, U64(year))
        p2 == pack_without_clearing(p1, SECOND_OFFSET, U64(second))
        p3 == pack_without_clearing(p2, MINUTE_OFFSET, U64(minute))
        p4 == pack_without_clearing(p3, HOUR_OFFSET, U64(hour))
        p5 == pack_without_clearing(p4, DAY0_OFFSET, U64(day - 1))
        p6 == pack_without_clearing(p5, MONTH0_OFFSET, U64(month - 1))
    IN [packed |-> p6, attos |-> attosecond]

\* the range checks with the bound of set_attosecond on the attosecond
DateTime_new_attosecond_bound_of_setter(C, year, month, day, hour, minute, second, attosecond) ==
    IF month < 1 \/ month > 12 THEN RangeError
    ELSE IF day < 1 \/ day > month_days(C, month, year) THEN RangeError
    ELSE IF hour > 23 THEN RangeError
    ELSE IF minute > 59 THEN RangeError
    ELSE IF second > 60 THEN RangeError
    ELSE IF attosecond > ATTOS_PER_SEC_I64 THEN RangeError
    ELSE Ok(new_unchecked(year, month, day, hour, minute, second, attosecond))

\* year: i32; month, day, hour, minute, second: u8; attosecond: u64
DateTime_new(C, year, month, day, hour, minute, second, attosecond) ==
    IF month < 1 \/ month > 12 THEN RangeError
    ELSE IF day < 1 \/ day > month_days(C, month, year) THEN RangeError
    ELSE IF hour > 23 THEN RangeError
    ELSE IF minute > 59 THEN RangeError
    ELSE IF second > 60 THEN RangeError
    ELSE IF attosecond > ATTOS_PER_SEC_I64 - 1 THEN RangeError
    ELSE Ok(new_unchecked(year, month, day, hour, minute, second, attosecond))

year(dt) == AsI32(unpack(dt.packed, YEAR_BITS, YEAR_OFFSET))

month(dt) == AsU8(unpack(dt.packed, MONTH0_BITS, MONTH0_OFFSET)) + 1

month0(dt) == AsU8(unpack(dt.packed, MONTH0_BITS, MONTH0_OFFSET))

day(dt) == AsU8(unpack(dt.packed, DAY0_BITS, DAY0_OFFSET)) + 1

day0(dt) == AsU8(unpack(dt.packed, DAY0_BITS, DAY0_OFFSET))

hour(dt) == AsU8(unpack(dt.packed, HOUR_BITS, HOUR_OFFSET))

minute(dt) == AsU8(unpack(dt.packed, MINUTE_BITS, MINUTE_OFFSET))

second(dt) == AsU8(unpack(dt.packed, SECOND_BITS, SECOND_OFFSET))

attosecond(dt) == dt.attos

\* (year, month, day)
DateTime_date(dt) == <<year(dt), month(dt), day(dt)>>

\* (hour, minute, second, attosecond)
time(dt) == <<hour(dt), minute(dt), second(dt), attosecond(dt)>>

\* the seven fields, in the order of DateTime::new
fields(dt) ==
    <<year(dt), month(dt), day(dt), hour(dt), minute(dt), second(dt), attosecond(dt)>>

\* A setter takes &mut self: it yields the value afterwards and its result
Set(dt, res) == [dt |-> dt, res |-> res]

set_hour(dt, h) ==
    IF h > 23 THEN Set(dt, "RangeError")
    ELSE Set([dt EXCEPT !.packed = pack(dt.packed, HOUR_BITS, HOUR_OFFSET, U64(h))], "Ok")

set_minute(dt, m) ==
    IF m > 59 THEN Set(dt, "RangeError")
    ELSE Set([dt EXCEPT !.packed = pack(dt.packed, MINUTE_BITS, MINUTE_OFFSET, U64(m))], "Ok")

\* a setter that takes 59 for the greatest second
set_second_without_leap(dt, s) ==
    IF s > 59 THEN Set(dt, "RangeError")
    ELSE Set([dt EXCEPT !.packed = pack(dt.packed, SECOND_BITS, SECOND_OFFSET, U64(s))], "Ok")

set_second(dt, s) ==
    IF s > 60 THEN Set(dt, "RangeError")
    ELSE Set([dt EXCEPT !.packed = pack(dt.packed, SECOND_BITS, SECOND_OFFSET, U64(s))], "Ok")

set_attosecond(dt, a) ==
    IF a > ATTOS_PER_SEC_I64 THEN Set(dt, "RangeError")
    ELSE Set([dt EXCEPT !.attos = a], "Ok")

\* set_hour(..)?; set_minute(..)?; set_second(..)?; set_attosecond(..)?
set_time(dt, t) ==
    Let([r1 \in {set_hour(dt, t[1])} |->
      IF r1.res # "Ok" THEN r1 ELSE
    Let([r2 \in {set_minute(r1.dt, t[2])} |->
      IF r2.res # "Ok" THEN r2 ELSE
    Let([r3 \in {set_second(r2.dt, t[3])} |->
      IF r3.res # "Ok" THEN r3 ELSE set_attosecond(r3.dt, t[4])])])])

\* DateTime::day_number: C::day_number(year, month, day).unwrap(), a wide value
DateTime_day_number(C, dt) == day_number(C, year(dt), month(dt), WInt(day(dt))).val

\* the build: true when integer overflow is checked (it then panics), false
\* when it wraps
VARIABLE overflow_checks

\* year + div on i32
i32_add(a, b) ==
    IF b > 0 /\ a > I32_MAX - b
    THEN IF overflow_checks THEN Panic ELSE Ok(I32_MIN + ((b - 1) - (I32_MAX - a)))
    ELSE IF b < 0 /\ a < I32_MIN - b
    THEN IF overflow_checks THEN Panic ELSE Ok(I32_MAX - (((-b) - 1) - (a - I32_MIN)))
    ELSE Ok(a + b)

\* year: i32; month, hour, minute, attosecond: i64 of the 32 bit range;
\* day, second: i64 (wide).  The result is Ok(DateTime), or a panic.
new_abnormal(C, year_in, month_in, day_in, hour_in, minute_in, second_in, attosecond_in) ==
    Let([month0_in \in {month_in - 1} |->
    Let([day0_in \in {WSub(day_in, WInt(1))} |->
    Let([dm_a \in {divmod_i64(attosecond_in, ATTOS_PER_SEC_I64)} |->
    Let([second1 \in {WAdd(second_in, WInt(dm_a[1]))} |->
    Let([minute1 \in {WAdd(WInt(minute_in), WFloorDiv(second1, 60))} |->
    Let([hour1 \in {WAdd(WInt(hour_in), WFloorDiv(minute1, 60))} |->
    Let([day0_out \in {WAdd(day0_in, WFloorDiv(hour1, 24))} |->
    Let([dm_m \in {divmod_i64(month0_in, 12)} |->
    Let([year1 \in {i32_add(year_in, dm_m[1])} |->
      IF ~IsOk(year1) THEN Panic ELSE
    Let([dn \in {day_number(C, year1.val, dm_m[2] + 1, WAdd(day0_out, WInt(1)))} |->
      IF ~IsOk(dn) THEN Panic ELSE
    Let([ymd \in {from_day_number(C, dn.val)} |->
      IF ~IsOk(ymd) THEN Panic
      ELSE Ok(new_unchecked(ymd.val[1], ymd.val[2], ymd.val[3],
                            WFloorMod(hour1, 24), WFloorMod(minute1, 60),
                            WFloorMod(second1, 60), dm_a[2]))])])])])])])])])])])])

\* DateTime::from_day_number: C::from_day_number(day_number)?, at 00:00:00
DateTime_from_day_number(C, dn) ==
    Let([ymd \in {from_day_number(C, dn)} |->
      IF IsOk(ymd)
      THEN Ok(new_unchecked(ymd.val[1], ymd.val[2], ymd.val[3], 0, 0, 0, 0))
      ELSE ymd])

Calendar_epoch(C) == IF is_gregorian(C) THEN Epoch_GregorianCalendar ELSE Epoch_JulianCalendar

\* The result is Ok(DateTime), or a panic.
from_duration_from_epoch(C, S, duration) ==
    Let([instant \in {Instant_add(Calendar_epoch(C), duration)} |->
    Let([leaps \in {leap_seconds_elapsed_at(instant)} |->
    Let([inside_a_leap \in
           {S = "UTC" /\
            leap_seconds_elapsed_at(Instant_add(instant, Duration_new(WInt(1), 0))) > leaps} |->
    Let([cal1 \in
           {IF S = "UTC" THEN Duration_sub(duration, Duration_new(WInt(leaps), 0))
            ELSE duration} |->
    Let([cal2 \in {Duration_sub(cal1, tt_offset(S))} |->
    Let([cal_duration \in
           {IF inside_a_leap THEN Duration_sub(cal2, Duration_new(WInt(1), 0)) ELSE cal2} |->
    Let([output \in
           {new_abnormal(C, 1, 1, WInt(1), 0, 0, cal_duration.secs, cal_duration.attos)} |->
      IF ~IsOk(output) THEN Panic
      ELSE IF ~inside_a_leap THEN output
      ELSE IF second(output.val) # 59 THEN Panic
      ELSE Ok(set_second(output.val, 60).dt)])])])])])])])

\* dn * 86400 for a wide dn
WMul86400(dn) == WMul(WMul(dn, 864), 100)

\* the duration without the leap second adjustment
duration_from_epoch_without_leaps(C, S, dt) ==
    Let([dn \in {DateTime_day_number(C, dt)} |->
    Let([seconds \in
           {WAdd(WMul86400(dn), WInt(hour(dt) * 3600 + minute(dt) * 60 + second(dt)))} |->
      Duration_add(Duration_new(seconds, attosecond(dt)), tt_offset(S))])])

duration_from_epoch(C, S, dt) ==
    Let([dn \in {DateTime_day_number(C, dt)} |->
    Let([seconds \in
           {WAdd(WMul86400(dn), WInt(hour(dt) * 3600 + minute(dt) * 60 + second(dt)))} |->
    Let([naive \in {Duration_new(seconds, attosecond(dt))} |->
    Let([d \in {Duration_add(naive, tt_offset(S))} |->
      IF S # "UTC" THEN d ELSE
    Let([close \in {Instant_add(Calendar_epoch(C), d)} |->
    Let([approx_leaps \in {leap_seconds_elapsed_at(close)} |->
    Let([actual_leaps \in
           {leap_seconds_elapsed_at(
                Instant_add(close, Duration_new(WInt(approx_leaps + 1), 0)))} |->
      Duration_add(d, Duration_new(WInt(actual_leaps), 0))])])])])])])])

\* impl From<Instant> for DateTime<C, S>
DateTime_from_Instant(C, S, i) == from_duration_from_epoch(C, S, Duration_sub(i, Calendar_epoch(C)))

\* impl From<DateTime<C, S>> for Instant
Instant_from_DateTime(C, S, dt) == Instant_add(Calendar_epoch(C), duration_from_epoch(C, S, dt))

\* impl TryFrom<DateTime<Gregorian, S>> for DateTime<Julian, S> (shift +2) and
\* impl TryFrom<DateTime<Julian, S>> for DateTime<Gregorian, S> (shift -2):
\* "from" is the calendar of the input.  The result is Ok(DateTime),
\* RangeError, or a panic.
Other(C) == IF is_gregorian(C) THEN "Julian" ELSE "Gregorian"

\* the conversion that keeps the day number as it is
try_from_calendar_without_shift(from, input) ==
    Let([r \in {DateTime_from_day_number(Other(from), DateTime_day_number(from, input))} |->
      IF ~IsOk(r) THEN r ELSE
    Let([st \in {set_time(r.val, time(input))} |->
      IF st.res # "Ok" THEN RangeError ELSE Ok(st.dt)])])

try_from_calendar(from, input) ==
    Let([dn \in {WAdd(DateTime_day_number(from, input),
                      WInt(IF is_gregorian(from) THEN 2 ELSE -2))} |->
    Let([r \in {DateTime_from_day_number(Other(from), dn)} |->
      IF ~IsOk(r) THEN r ELSE
    Let([st \in {set_time(r.val, time(input))} |->
      IF st.res # "Ok" THEN RangeError ELSE Ok(st.dt)])])])

\* ------------------------------------------------------------------------
\* instant.rs: Julian days
\* ------------------------------------------------------------------------

SECS_PER_DAY == 86400

\* day: i64 (wide); seconds: u32; attoseconds: i64
from_julian_day_precise(jday, seconds, attoseconds) ==
    IF seconds >= SECS_PER_DAY THEN RangeError
    ELSE IF attoseconds < 0 \/ attoseconds >= ATTOS_PER_SEC_I64 THEN RangeError
    ELSE Ok(Instant_add(Epoch_JulianPeriod,
                        Duration_new(WAdd(WMul86400(jday), WInt(seconds)), attoseconds)))

\* Rust's a / 86400 on i64 for a wide a
WDiv86400(a) == WDiv(WDiv(a, 100), 864)

\* <<day, secs, attos>> with day wide
as_julian_day_precise(i) ==
    Let([since \in {Duration_sub(i, Epoch_JulianPeriod)} |->
    Let([jday \in {WDiv86400(since.secs)} |->
      <<jday, WToInt(WSub(since.secs, WMul86400(jday))), since.attos>>])])

\* ------------------------------------------------------------------------
\* instant.rs: NTP dates and the system clock
\* ------------------------------------------------------------------------

\* <<seconds, attoseconds>> with seconds wide
as_ntp_date(i) ==
    Let([ntp_dur \in {Duration_sub(i, Epoch_Ntp)} |->
    Let([leaps \in {leap_seconds_elapsed_at(i)} |->
      <<WSub(ntp_dur.secs, WInt(leaps)), ntp_dur.attos>>])])

\* ntp_secs: i64 (wide), ntp_attos: i64
from_ntp_date(ntp_secs, ntp_attos) ==
    Let([close \in {Instant_add(Epoch_Ntp, Duration_new(ntp_secs, ntp_attos))} |->
    Let([approx_leaps \in {leap_seconds_elapsed_at(close)} |->
    Let([actual_leaps \in
           {leap_seconds_elapsed_at(
                Instant_add(close, Duration_new(WInt(approx_leaps + 1), 0)))} |->
      Instant_add(close, Duration_new(WInt(actual_leaps), 0))])])])

\* A std::time::Duration is [over, secs, subsec]: over says that as_secs()
\* exceeds i64::MAX, secs is as_secs() otherwise, subsec is subsec_nanos() in
\* units of 10^6 ns.
StdDuration(over, secs, subsec) == [over |-> over, secs |-> secs, subsec |-> subsec]

\* impl TryFrom<std::time::Duration> for Duration; subsec_nanos() * 10^9
\* attoseconds is subsec sub-second units
Duration_try_from(d) ==
    IF d.over THEN RangeError
    ELSE Ok(Dur(d.secs, Millis(d.subsec)))

\* A std::time::SystemTime is [before, dur]: duration_since(UNIX_EPOCH) is
\* Ok(dur), or Err with e.duration() = dur when before holds.
SystemTime(before, dur) == [before |-> before, dur |-> dur]

\* the conversion with the first addition of leap seconds only
Instant_try_from_in_one_pass(s) ==
    Let([d \in {Duration_try_from(s.dur)} |->
      IF ~IsOk(d) THEN RangeError ELSE
    Let([instant0 \in
           {Instant_add(Epoch_Unix, IF s.before THEN Duration_neg(d.val) ELSE d.val)} |->
      Ok(Instant_add(instant0, Duration_new(WInt(leap_seconds_elapsed_at(instant0)), 0)))])])

\* impl TryFrom<std::time::SystemTime> for Instant
Instant_try_from(s) ==
    Let([d \in {Duration_try_from(s.dur)} |->
      IF ~IsOk(d) THEN RangeError ELSE
    Let([since_unix_epoch_less_leaps \in
           {IF s.before THEN Duration_neg(d.val) ELSE d.val} |->
    Let([instant0 \in {Instant_add(Epoch_Unix, since_unix_epoch_less_leaps)} |->
    Let([leaps \in {leap_seconds_elapsed_at(instant0)} |->
    Let([instant1 \in {Instant_add(instant0, Duration_new(WInt(leaps), 0))} |->
    Let([leaps2 \in {leap_seconds_elapsed_at(instant1)} |->
      Ok(Instant_add(instant1, Duration_new(WInt(leaps2 - leaps), 0)))])])])])])])

\* ------------------------------------------------------------------------
\* date_time.rs: the setters of the date, and weekday
\* ------------------------------------------------------------------------

\* a - b on i32
i32_sub(a, b) ==
    IF b < 0 /\ a > I32_MAX + b
    THEN IF overflow_checks THEN Panic ELSE Ok(((a + I32_MIN) - b) + I32_MIN)
    ELSE IF b > 0 /\ a < I32_MIN + b
    THEN IF overflow_checks THEN Panic ELSE Ok((((a - I32_MIN) - b) + I32_MAX) + 1)
    ELSE Ok(a - b)

set_year(dt, y) ==
    Set([dt EXCEPT !.packed = pack(dt.packed, YEAR_BITS, YEAR_OFFSET, U64(y))], "Ok")

set_year_bc(dt, year_bc) ==
    Let([y \in {i32_sub(1, year_bc)} |->
      IF ~IsOk(y) THEN Set(dt, "panic")
      ELSE Set([dt EXCEPT !.packed = pack(dt.packed, YEAR_BITS, YEAR_OFFSET, U64(y.val))],
               "Ok")])

\* m: u8
set_month(C, dt, m) ==
    IF m < 1 \/ m > 12 THEN Set(dt, "RangeError")
    ELSE IF day(dt) > month_days(C, m, year(dt)) THEN Set(dt, "RangeError")
    ELSE Set([dt EXCEPT !.packed = pack(dt.packed, MONTH0_BITS, MONTH0_OFFSET, U64(m - 1))],
             "Ok")

\* d: u8
set_day(C, dt, d) ==
    IF d < 1 \/ d > month_days(C, month(dt), year(dt)) THEN Set(dt, "RangeError")
    ELSE Set([dt EXCEPT !.packed = pack(dt.packed, DAY0_BITS, DAY0_OFFSET, U64(d - 1))], "Ok")

\* the weekday counted from 0, without the + 1
weekday_from_zero(C, dt) ==
    WFloorMod(WAdd(DateTime_day_number(C, dt), WInt(IF is_gregorian(C) THEN 0 ELSE 5)), 7)

\* DateTime::weekday: 1 (Monday) .. 7 (Sunday)
weekday(C, dt) ==
    Let([offset \in {IF is_gregorian(C) THEN 0 ELSE 5} |->
      WFloorMod(WAdd(DateTime_day_number(C, dt), WInt(offset)), 7) + 1])

\* Duration::seconds_part
seconds_part(d) == d.secs

\* ------------------------------------------------------------------------
\* calendar.rs: the leap days that day_number adds to 365 * y
\* ------------------------------------------------------------------------

\* y: i64 (wide), the year on the March 1st basis; y/4 + (y>>63), and
\* - y/100 + y/400 in the Gregorian calendar, "/" truncating
leap_day_term(C, y) ==
    Let([julian \in {WAdd(WDiv(y, 4), WShr63(y))} |->
      IF is_gregorian(C) THEN WAdd(WSub(julian, WDiv(y, 100)), WDiv(y, 400)) ELSE julian])

\* from_day_number up to its month: the year first estimated, the year after
\* the correction, and the remaining days
from_day_number_year(C, day_number_in) ==
    Let([dn \in {WAdd(day_number_in, WInt(306))} |->
    Let([est \in {year_estimate(dn, days_in_year_times_10000(C))} |->
    Let([rd0 \in {calc_remaining_days(C, dn, est)} |->
    Let([offset_year \in {IF WIsNeg(rd0) THEN WSub(est, WInt(1)) ELSE est} |->
      [estimate |-> est,
       offset_year |-> offset_year,
       remaining_days |->
           IF WIsNeg(rd0) THEN calc_remaining_days(C, dn, offset_year) ELSE rd0]])])])])

\* ------------------------------------------------------------------------
\* standard.rs: durations since the epoch carried between TT, TAI and UTC
\* ------------------------------------------------------------------------

Tai_to_tt(dur) == Duration_add(dur, Duration_new(WInt(32), Millis(184)))

Tai_from_tt(dur) == Duration_sub(dur, Duration_new(WInt(32), Millis(184)))

\* iter().enumerate().find(|(_n, &leap)| secs < leap) from the n-th entry on
\* (n counts from 1, so the index found is n - 1); "drag" is 1 where each
\* entry is first moved back by its index, 0 where it is taken as it stands
RECURSIVE find_leap_from(_, _, _)
find_leap_from(secs, n, drag) ==
    IF n > Len(IANA_NTP_LEAP_SECONDS) THEN Len(IANA_NTP_LEAP_SECONDS)
    ELSE IF WLt(secs, WSub(IANA_NTP_LEAP_SECONDS[n], WInt(drag * (n - 1))))
         THEN n - 1
         ELSE find_leap_from(secs, n + 1, drag)

leap_seconds_elapsed(at) ==
    find_leap_from(seconds_part(Instant_sub(at, Epoch_Ntp)), 1, 0)

\* the same search against the table entries as they stand
leap_seconds_elapsed_for_utc_undragged(unadjusted_dur) ==
    find_leap_from(
        seconds_part(Duration_sub(
            Duration_add(unadjusted_dur, Duration_new(WInt(9 + 32), Millis(184))),
            Epoch_Ntp)),
        1, 0)

leap_seconds_elapsed_for_utc(unadjusted_dur) ==
    find_leap_from(
        seconds_part(Duration_sub(
            Duration_add(unadjusted_dur, Duration_new(WInt(9 + 32), Millis(184))),
            Epoch_Ntp)),
        1, 1)

Utc_to_tt(dur) ==
    Duration_add(
        Duration_add(Tai_to_tt(dur), Duration_new(WInt(9), 0)),
        Duration_new(WInt(leap_seconds_elapsed_for_utc(dur)), 0))

Utc_from_tt(dur) ==
    Duration_sub(
        Duration_sub(Tai_from_tt(dur), Duration_new(WInt(9), 0)),
        Duration_new(WInt(leap_seconds_elapsed(dur)), 0))

to_tt(S, dur) == IF S = "TAI" THEN Tai_to_tt(dur) ELSE Utc_to_tt(dur)

from_tt(S, dur) == IF S = "TAI" THEN Tai_from_tt(dur) ELSE Utc_from_tt(dur)

\* ------------------------------------------------------------------------
\* duration.rs: Display.  The text written is the sequence of the pieces
\* that the write! calls emit; a piece is a literal with the number printed
\* before it ("{days}D" is Piece("D", days)), and "{s}.{a:018}S" is the two
\* pieces "{s}." and "{a:018}S"
\* ------------------------------------------------------------------------

Piece(text, n) == [text |-> text, n |-> n]

WAbs(a) == IF WIsNeg(a) THEN WNeg(a) ELSE a

Abs(a) == IF a < 0 THEN -a ELSE a

Duration_fmt(d) ==
    Let([s0 \in {WAbs(d.secs)} |->
    Let([a \in {Abs(d.attos)} |->
    Let([days \in {WDiv86400(s0)} |->
    Let([s1 \in {WToInt(WSub(s0, WMul86400(days)))} |->
    Let([hours \in {s1 \div 3600} |->
    Let([s2 \in {s1 % 3600} |->
    Let([minutes \in {s2 \div 60} |->
    Let([s \in {s2 % 60} |->
        (IF WIsNeg(d.secs) THEN <<Piece("-P", WInt(0))>> ELSE <<Piece("P", WInt(0))>>)
        \o (IF days # WInt(0) THEN <<Piece("D", days)>> ELSE <<>>)
        \o (IF s1 # 0 \/ a # 0 THEN <<Piece("T", WInt(0))>> ELSE <<>>)
        \o (IF hours # 0 THEN <<Piece("H", WInt(hours))>> ELSE <<>>)
        \o (IF minutes # 0 THEN <<Piece("M", WInt(minutes))>> ELSE <<>>)
        \o (IF s # 0 \/ a # 0
            THEN IF a = 0 THEN <<Piece("S", WInt(s))>>
                 ELSE <<Piece(".", WInt(s)), Piece("S", WInt(a))>>
            ELSE <<>>)])])])])])])])])

\* date_time.rs set_date: set_year(..); set_month(..)?; set_day(..)?
set_date(C, dt, date) ==
    Let([r1 \in {set_year(dt, date[1])} |->
    Let([r2 \in {set_month(C, r1.dt, date[2])} |->
      IF r2.res # "Ok" THEN r2 ELSE set_day(C, r2.dt, date[3])])])

\* ------------------------------------------------------------------------
\* State: one group of variables for each part of the library that is
\* exercised; a group that a specification does not exercise stays idle
\* ------------------------------------------------------------------------

VARIABLES c_cal, c_date, c_dn, c_back

VARIABLES d_val, d_op

VARIABLES l_i, l_ci, l_j, l_cj

VARIABLES t_cal, t_std, t_dt, t_call, t_res

VARIABLES a_cal, a_args, a_out, a_new, a_kind, a_carry

VARIABLES v_cal, v_std, v_i, v_dt, v_back

VARIABLES x_from, x_dt, x_conv, x_back

VARIABLES j_args, j_inst, j_back

VARIABLES n_i, n_ntp, n_back, n_clock

VARIABLES s_d, s_inst

VARIABLES y_cal, y_y, y_term

VARIABLES q_std, q_d, q_u, q_back

cal_vars == <<c_cal, c_date, c_dn, c_back>>

dur_vars == <<d_val, d_op>>

leap_vars == <<l_i, l_ci, l_j, l_cj>>

dt_vars == <<t_cal, t_std, t_dt, t_call, t_res>>

abn_vars == <<a_cal, a_args, a_out, a_new, a_kind, a_carry>>

conv_vars == <<v_cal, v_std, v_i, v_dt, v_back>>

xc_vars == <<x_from, x_dt, x_conv, x_back>>

jd_vars == <<j_args, j_inst, j_back>>

ntp_vars == <<n_i, n_ntp, n_back, n_clock>>

sys_vars == <<s_d, s_inst>>

term_vars == <<y_cal, y_y, y_term>>

tt_vars == <<q_std, q_d, q_u, q_back>>

vars ==
    <<overflow_checks, cal_vars, dur_vars, leap_vars, dt_vars, abn_vars, conv_vars, xc_vars,
      jd_vars, ntp_vars, sys_vars, term_vars, tt_vars>>

CalIdle == c_cal = None /\ c_date = None /\ c_dn = None /\ c_back = None

DurIdle == d_val = None /\ d_op = None

LeapIdle == l_i = None /\ l_ci = None /\ l_j = None /\ l_cj = None

DtIdle == t_cal = None /\ t_std = None /\ t_dt = None /\ t_call = None /\ t_res = None

AbnIdle == a_cal = None /\ a_args = None /\ a_out = None /\ a_new = None /\ a_kind = None /\ a_carry = None

ConvIdle == v_cal = None /\ v_std = None /\ v_i = None /\ v_dt = None /\ v_back = None

XcIdle == x_from = None /\ x_dt = None /\ x_conv = None /\ x_back = None

JdIdle == j_args = None /\ j_inst = None /\ j_back = None

NtpIdle == n_i = None /\ n_ntp = None /\ n_back = None /\ n_clock = None

SysIdle == s_d = None /\ s_inst = None

TermIdle == y_cal = None /\ y_y = None /\ y_term = None

TtIdle == q_std = None /\ q_d = None /\ q_u = None /\ q_back = None

\* what a step of one group leaves alone, and the idle state of the other groups

rest_cal ==
    <<overflow_checks, dur_vars, leap_vars, dt_vars, abn_vars, conv_vars, xc_vars,
      jd_vars, ntp_vars, sys_vars, term_vars, tt_vars>>

rest_dur ==
    <<overflow_checks, cal_vars, leap_vars, dt_vars, abn_vars, conv_vars, xc_vars,
      jd_vars, ntp_vars, sys_vars, term_vars, tt_vars>>

rest_leap ==
    <<overflow_checks, cal_vars, dur_vars, dt_vars, abn_vars, conv_vars, xc_vars,
      jd_vars, ntp_vars, sys_vars, term_vars, tt_vars>>

rest_dt ==
    <<overflow_checks, cal_vars, dur_vars, leap_vars, abn_vars, conv_vars, xc_vars,
      jd_vars, ntp_vars, sys_vars, term_vars, tt_vars>>

rest_abn ==
    <<overflow_checks, cal_vars, dur_vars, leap_vars, dt_vars, conv_vars, xc_vars,
      jd_vars, ntp_vars, sys_vars, term_vars, tt_vars>>

rest_conv ==
    <<overflow_checks, cal_vars, dur_vars, leap_vars, dt_vars, abn_vars, xc_vars,
      jd_vars, ntp_vars, sys_vars, term_vars, tt_vars>>

rest_xc ==
    <<overflow_checks, cal_vars, dur_vars, leap_vars, dt_vars, abn_vars, conv_vars,
      jd_vars, ntp_vars, sys_vars, term_vars, tt_vars>>

rest_jd ==
    <<overflow_checks, cal_vars, dur_vars, leap_vars, dt_vars, abn_vars, conv_vars,
      xc_vars, ntp_vars, sys_vars, term_vars, tt_vars>>

rest_ntp ==
    <<overflow_checks, cal_vars, dur_vars, leap_vars, dt_vars, abn_vars, conv_vars,
      xc_vars, jd_vars, sys_vars, term_vars, tt_vars>>

rest_sys ==
    <<overflow_checks, cal_vars, dur_vars, leap_vars, dt_vars, abn_vars, conv_vars,
      xc_vars, jd_vars, ntp_vars, term_vars, tt_vars>>

rest_term ==
    <<overflow_checks, cal_vars, dur_vars, leap_vars, dt_vars, abn_vars, conv_vars,
      xc_vars, jd_vars, ntp_vars, sys_vars, tt_vars>>

rest_tt ==
    <<overflow_checks, cal_vars, dur_vars, leap_vars, dt_vars, abn_vars, conv_vars,
      xc_vars, jd_vars, ntp_vars, sys_vars, term_vars>>

CalRestIdle ==
    DurIdle /\ LeapIdle /\ DtIdle /\ AbnIdle /\ ConvIdle /\ XcIdle
    /\ JdIdle /\ NtpIdle /\ SysIdle /\ TermIdle /\ TtIdle

DurRestIdle ==
    CalIdle /\ LeapIdle /\ DtIdle /\ AbnIdle /\ ConvIdle /\ XcIdle
    /\ JdIdle /\ NtpIdle /\ SysIdle /\ TermIdle /\ TtIdle

LeapRestIdle ==
    CalIdle /\ DurIdle /\ DtIdle /\ AbnIdle /\ ConvIdle /\ XcIdle
    /\ JdIdle /\ NtpIdle /\ SysIdle /\ TermIdle /\ TtIdle

DtRestIdle ==
    CalIdle /\ DurIdle /\ LeapIdle /\ AbnIdle /\ ConvIdle /\ XcIdle
    /\ JdIdle /\ NtpIdle /\ SysIdle /\ TermIdle /\ TtIdle

AbnRestIdle ==
    CalIdle /\ DurIdle /\ LeapIdle /\ DtIdle /\ ConvIdle /\ XcIdle
    /\ JdIdle /\ NtpIdle /\ SysIdle /\ TermIdle /\ TtIdle

ConvRestIdle ==
    CalIdle /\ DurIdle /\ LeapIdle /\ DtIdle /\ AbnIdle /\ XcIdle
    /\ JdIdle /\ NtpIdle /\ SysIdle /\ TermIdle /\ TtIdle

XcRestIdle ==
    CalIdle /\ DurIdle /\ LeapIdle /\ DtIdle /\ AbnIdle /\ ConvIdle
    /\ JdIdle /\ NtpIdle /\ SysIdle /\ TermIdle /\ TtIdle

JdRestIdle ==
    CalIdle /\ DurIdle /\ LeapIdle /\ DtIdle /\ AbnIdle /\ ConvIdle
    /\ XcIdle /\ NtpIdle /\ SysIdle /\ TermIdle /\ TtIdle

NtpRestIdle ==
    CalIdle /\ DurIdle /\ LeapIdle /\ DtIdle /\ AbnIdle /\ ConvIdle
    /\ XcIdle /\ JdIdle /\ SysIdle /\ TermIdle /\ TtIdle

SysRestIdle ==
    CalIdle /\ DurIdle /\ LeapIdle /\ DtIdle /\ AbnIdle /\ ConvIdle
    /\ XcIdle /\ JdIdle /\ NtpIdle /\ TermIdle /\ TtIdle

TermRestIdle ==
    CalIdle /\ DurIdle /\ LeapIdle /\ DtIdle /\ AbnIdle /\ ConvIdle
    /\ XcIdle /\ JdIdle /\ NtpIdle /\ SysIdle /\ TtIdle

TtRestIdle ==
    CalIdle /\ DurIdle /\ LeapIdle /\ DtIdle /\ AbnIdle /\ ConvIdle
    /\ XcIdle /\ JdIdle /\ NtpIdle /\ SysIdle /\ TermIdle

\* ------------------------------------------------------------------------
\* The calendar algorithm applied to a date
\* ------------------------------------------------------------------------

YearBound == 120

CalYears == (-YearBound .. YearBound) \cup {I32_MIN, I32_MIN + 1, -400, 400, 1582, 2000, I32_MAX}

ValidDates(C) ==
    {ymd \in CalYears \X (1 .. 12) \X (1 .. 31) : ymd[3] <= month_days(C, ymd[2], ymd[1])}

CalInit ==
    /\ c_cal \in Calendars
    /\ c_date \in ValidDates(c_cal)
    /\ c_dn = None
    /\ c_back = None
    /\ overflow_checks = TRUE
    /\ CalRestIdle

CalDayNumber ==
    /\ c_dn = None
    /\ c_dn' = day_number(c_cal, c_date[1], c_date[2], WInt(c_date[3]))
    /\ UNCHANGED <<c_cal, c_date, c_back>>
    /\ UNCHANGED rest_cal

CalFromDayNumber ==
    /\ IsOk(c_dn)
    /\ c_back = None
    /\ c_back' = from_day_number(c_cal, c_dn.val)
    /\ UNCHANGED <<c_cal, c_date, c_dn>>
    /\ UNCHANGED rest_cal

CalNext == CalDayNumber \/ CalFromDayNumber

SpecCal == CalInit /\ [][CalNext]_vars

\* C1: for each calendar and every valid date,
\* from_day_number(day_number(year, month, day)) is Ok((year, month, day)).
C1_RoundTrip == c_back # None => (IsOk(c_back) /\ c_back.val = c_date)

\* ------------------------------------------------------------------------
\* Durations: a value built by Duration::new and then combined with others
\* ------------------------------------------------------------------------

\* results are kept within DurMaxSecs seconds of zero
DurMaxSecs == 4

DurRawSecs == -2 .. 2

DurRawAttos ==
    {-(ATTOS_PER_SEC_I64 + 500), -ATTOS_PER_SEC_I64, -(ATTOS_PER_SEC_I64 - 1), -1, 0, 1,
     ATTOS_PER_SEC_I64 - 1, ATTOS_PER_SEC_I64, ATTOS_PER_SEC_I64 + 500}

DurInBound(d) == WLe(WInt(-DurMaxSecs), d.secs) /\ WLe(d.secs, WInt(DurMaxSecs))

DurInit ==
    /\ d_val \in {Duration_new(WInt(s), a) : s \in DurRawSecs, a \in DurRawAttos}
    /\ d_op = "new"
    /\ overflow_checks = TRUE
    /\ DurRestIdle

DurNew ==
    /\ \E s \in DurRawSecs, a \in DurRawAttos : d_val' = Duration_new(WInt(s), a)
    /\ d_op' = "new"
    /\ UNCHANGED rest_dur

DurAdd ==
    /\ \E s \in DurRawSecs, a \in DurRawAttos :
          d_val' = Duration_add(d_val, Duration_new(WInt(s), a))
    /\ DurInBound(d_val')
    /\ d_op' = "add"
    /\ UNCHANGED rest_dur

DurSub ==
    /\ \E s \in DurRawSecs, a \in DurRawAttos :
          d_val' = Duration_sub(d_val, Duration_new(WInt(s), a))
    /\ DurInBound(d_val')
    /\ d_op' = "sub"
    /\ UNCHANGED rest_dur

DurNeg ==
    /\ d_val' = Duration_neg(d_val)
    /\ d_op' = "neg"
    /\ UNCHANGED rest_dur

DurNext == DurNew \/ DurAdd \/ DurSub \/ DurNeg

SpecDur == DurInit /\ [][DurNext]_vars

\* |attos| < one second, and attos never has the sign opposite to secs
Normalized(d) ==
    /\ -ATTOS_PER_SEC_I64 < d.attos /\ d.attos < ATTOS_PER_SEC_I64
    /\ d.attos > 0 => ~WIsNeg(d.secs)
    /\ d.attos < 0 => ~WIsPos(d.secs)

\* C5: every Duration returned by Duration::new for arbitrary signed inputs, and
\* by +, - and unary negation applied to normalized Durations, is normalized.
C5_Normalized == d_val # None => Normalized(d_val)

\* a subtraction that ends one sub-second unit short of minus two seconds
C5_Witness == d_op = "sub" /\ d_val = Dur(WInt(-1), -(ATTOS_PER_SEC_I64 - 1))

\* ------------------------------------------------------------------------
\* Leap seconds: the count at two instants
\* ------------------------------------------------------------------------

\* offsets from a leap instant, as the arguments of Duration::new
LeapOffsets ==
    {<<-2, 0>>, <<-1, -1>>, <<-1, 0>>, <<-1, 1>>, <<0, -500>>, <<0, -1>>, <<0, 0>>,
     <<0, 1>>, <<1, 0>>}

LeapPool ==
    {Instant_add(leap_instant(n), Duration_new(WInt(o[1]), o[2])) :
        n \in 1 .. Len(IANA_NTP_LEAP_SECONDS), o \in LeapOffsets}
    \cup {Epoch_JulianPeriod, Epoch_GregorianCalendar, Epoch_Ntp, Epoch_Unix,
          Epoch_TimeStandard, Epoch_Y1977, Epoch_Y2k}

LeapInit ==
    /\ l_i \in LeapPool
    /\ l_ci = None /\ l_j = None /\ l_cj = None
    /\ overflow_checks = TRUE
    /\ LeapRestIdle

LeapFirst ==
    /\ l_ci = None
    /\ l_ci' = Ok(leap_seconds_elapsed_at(l_i))
    /\ UNCHANGED <<l_i, l_j, l_cj>>
    /\ UNCHANGED rest_leap

LeapSecond ==
    /\ l_ci # None /\ l_j = None
    /\ \E j \in LeapPool : l_j' = j /\ l_cj' = Ok(leap_seconds_elapsed_at(j))
    /\ UNCHANGED <<l_i, l_ci>>
    /\ UNCHANGED rest_leap

LeapNext == LeapFirst \/ LeapSecond

SpecLeap == LeapInit /\ [][LeapNext]_vars

\* Epoch::Ntp + (table[n-1] + n) seconds, for the 1-based n
NthLeapInstant(n) ==
    Instant_add(Epoch_Ntp, Duration_new(WAdd(IANA_NTP_LEAP_SECONDS[n], WInt(n)), 0))

\* C4: leap_seconds_elapsed_at is non-decreasing in its argument, lies in 0..28,
\* is n-1 in the second before the n-th leap instant and n from the n-th leap
\* instant up to the next one.
C4_LeapCount ==
    /\ l_ci # None =>
         /\ l_ci.val \in 0 .. 28
         /\ \A n \in 1 .. 28 :
              /\ (Duration_ge(l_i, Instant_sub(NthLeapInstant(n), Duration_new(WInt(1), 0)))
                  /\ Duration_lt(l_i, NthLeapInstant(n))) => l_ci.val = n - 1
              /\ (Duration_ge(l_i, NthLeapInstant(n))
                  /\ (n < 28 => Duration_lt(l_i, NthLeapInstant(n + 1)))) => l_ci.val = n
    /\ l_cj # None =>
         /\ Duration_ge(l_j, l_i) => l_cj.val >= l_ci.val
         /\ Duration_ge(l_i, l_j) => l_ci.val >= l_cj.val

\* half a second before the 10th leap instant the count is 9, at it 10
C4_Witness ==
    /\ l_i = Instant_sub(NthLeapInstant(10), Duration_new(WInt(0), 500))
    /\ l_ci = Ok(9)
    /\ l_j = NthLeapInstant(10)
    /\ l_cj = Ok(10)

\* ------------------------------------------------------------------------
\* A DateTime<C, S>: construction with DateTime::new, then set_second
\* ------------------------------------------------------------------------

\* the standard S of the type; new and the setters do not read it
DtStandards == {"TT", "TAI", "UTC", "TCG"}

DtYears == {I32_MIN, -4, -1, 0, 1900, 2000, I32_MAX}

DtMonths == {0, 1, 2, 4, 12, 13}

DtDays == {0, 1, 28, 29, 30, 31, 32}

DtHours == {0, 23, 24}

DtMinutes == {0, 59, 60}

DtSeconds == {0, 59, 60, 61}

DtAttos == {0, ATTOS_PER_SEC_I64 - 1, ATTOS_PER_SEC_I64}

DtArgs == DtYears \X DtMonths \X DtDays \X DtHours \X DtMinutes \X DtSeconds \X DtAttos

DtInit ==
    /\ t_cal \in Calendars
    /\ t_std \in DtStandards
    /\ t_dt = None /\ t_call = None /\ t_res = None
    /\ overflow_checks = TRUE
    /\ DtRestIdle

DtNew ==
    /\ t_call = None
    /\ \E a \in DtArgs :
          LET r == DateTime_new(t_cal, a[1], a[2], a[3], a[4], a[5], a[6], a[7])
          IN /\ t_call' = [op |-> "new", args |-> a]
             /\ t_res' = r.tag
             /\ t_dt' = IF IsOk(r) THEN r.val ELSE None
    /\ UNCHANGED <<t_cal, t_std>>
    /\ UNCHANGED rest_dt

DtSetSecond ==
    /\ t_dt # None
    /\ \E sec \in DtSeconds :
          LET r == set_second(t_dt, sec)
          IN /\ t_call' = [op |-> "set_second", args |-> <<sec>>]
             /\ t_res' = r.res
             /\ t_dt' = r.dt
    /\ UNCHANGED <<t_cal, t_std>>
    /\ UNCHANGED rest_dt

DtNext == DtNew \/ DtSetSecond

SpecDT == DtInit /\ [][DtNext]_vars

DtCalled(op) == t_call # None /\ t_call.op = op

\* the date and the hour, minute and attosecond of the arguments are in range
DtOtherFieldsValid(a) ==
    /\ a[2] >= 1 /\ a[2] <= 12
    /\ a[3] >= 1 /\ a[3] <= month_days(t_cal, a[2], a[1])
    /\ a[4] <= 23 /\ a[5] <= 59
    /\ a[7] < ATTOS_PER_SEC_I64

\* C6: DateTime::new returns Err(RangeError) if and only if month is outside
\* 1..12, or day is outside 1..month_days(month, year), or hour > 23, or
\* minute > 59, or second > 60, or attosecond is a whole second or more;
\* otherwise it returns Ok and the seven accessors return the inputs, with
\* month0() = month - 1 and day0() = day - 1.
C6_NewChecksRanges ==
    DtCalled("new") =>
        LET a == t_call.args
            bad == \/ a[2] < 1 \/ a[2] > 12
                   \/ a[3] < 1 \/ a[3] > month_days(t_cal, a[2], a[1])
                   \/ a[4] > 23 \/ a[5] > 59 \/ a[6] > 60
                   \/ a[7] >= ATTOS_PER_SEC_I64
        IN /\ t_res = "RangeError" <=> bad
           /\ ~bad => /\ t_res = "Ok"
                      /\ fields(t_dt) = a
                      /\ month0(t_dt) = a[2] - 1
                      /\ day0(t_dt) = a[3] - 1

\* the leap day of the least year, at 23:59:60 and the last sub-second unit
C6_Witness ==
    /\ DtCalled("new")
    /\ t_call.args = <<I32_MIN, 2, 29, 23, 59, 60, ATTOS_PER_SEC_I64 - 1>>
    /\ t_res = "Ok"
    /\ year(t_dt) = I32_MIN /\ day0(t_dt) = 28 /\ second(t_dt) = 60

\* C7 as stated: under a standard other than UTC, new and set_second reject
\* second = 60 with RangeError, and the value never holds second = 60.
C7_Original ==
    t_std # "UTC" =>
        /\ (DtCalled("new") /\ t_call.args[6] = 60) => t_res = "RangeError"
        /\ (DtCalled("set_second") /\ t_call.args[1] = 60) => t_res = "RangeError"
        /\ t_dt # None => second(t_dt) # 60

\* C7: under every standard, UTC or not, new (its other fields being in
\* range) and set_second return RangeError exactly when second > 60, and
\* after Ok the value holds the second given, 60 included.
C7_SixtyAcceptedUnderEveryStandard ==
    /\ (DtCalled("new") /\ DtOtherFieldsValid(t_call.args)) =>
          /\ t_res = "RangeError" <=> t_call.args[6] > 60
          /\ t_res = "Ok" => second(t_dt) = t_call.args[6]
    /\ DtCalled("set_second") =>
          /\ t_res = "RangeError" <=> t_call.args[1] > 60
          /\ t_res = "Ok" => second(t_dt) = t_call.args[1]

\* set_second(60) returned Ok on a DateTime under TAI
C7_Witness ==
    /\ t_std = "TAI"
    /\ DtCalled("set_second") /\ t_call.args = <<60>>
    /\ t_res = "Ok" /\ second(t_dt) = 60

\* ------------------------------------------------------------------------
\* DateTime::new_abnormal, beside DateTime::new and beside itself after a
\* unit of carry was moved between two adjacent arguments
\* ------------------------------------------------------------------------

AbnYears == {I32_MIN, -2930, -4, 1, 2000, I32_MAX}

AbnMonths == {-12, 0, 2, 12, 13}

AbnDays == {0, 1, 28, 29, 32}

AbnHours == {-1, 0, 24}

AbnMinutes == {-1, 59, 60}

AbnSeconds == {-1, 59, 86400}

AbnAttos == {-1, 0, ATTOS_PER_SEC_I64}

AbnArgs == AbnYears \X AbnMonths \X AbnDays \X AbnHours \X AbnMinutes \X AbnSeconds \X AbnAttos

CarryKinds == {"attosecond", "second", "minute", "hour", "day", "month"}

\* the arguments with one unit taken from a field and its worth given to the
\* next smaller one
Carried(C, kind, a) ==
    CASE kind = "attosecond" -> [a EXCEPT ![6] = a[6] - 1, ![7] = a[7] + ATTOS_PER_SEC_I64]
      [] kind = "second" -> [a EXCEPT ![5] = a[5] - 1, ![6] = a[6] + 60]
      [] kind = "minute" -> [a EXCEPT ![4] = a[4] - 1, ![5] = a[5] + 60]
      [] kind = "hour" -> [a EXCEPT ![3] = a[3] - 1, ![4] = a[4] + 24]
      [] kind = "day" -> [a EXCEPT ![2] = a[2] - 1,
                                   ![3] = a[3] + month_days(C, a[2] - 1, a[1])]
      [] kind = "month" -> [a EXCEPT ![1] = a[1] - 1, ![2] = a[2] + 12]

CarryApplies(kind, a) ==
    CASE kind = "day" -> a[2] >= 2 /\ a[2] <= 12
      [] kind = "month" -> a[1] > I32_MIN
      [] OTHER -> TRUE

\* the types of DateTime::new: u8 fields and a u64 attosecond
AbnArgsFitNew(a) ==
    /\ \A k \in 2 .. 6 : a[k] >= 0 /\ a[k] <= 255
    /\ a[7] >= 0

new_abnormal_of(C, a) == new_abnormal(C, a[1], a[2], WInt(a[3]), a[4], a[5], WInt(a[6]), a[7])

AbnInit ==
    /\ a_cal \in Calendars
    /\ a_args \in AbnArgs
    /\ a_out = None /\ a_new = None /\ a_kind = None /\ a_carry = None
    /\ overflow_checks \in BOOLEAN
    /\ AbnRestIdle

AbnCall ==
    /\ a_out = None
    /\ a_out' = new_abnormal_of(a_cal, a_args)
    /\ UNCHANGED <<a_cal, a_args, a_new, a_kind, a_carry>>
    /\ UNCHANGED rest_abn

AbnNew ==
    /\ a_out # None /\ a_new = None /\ a_carry = None
    /\ AbnArgsFitNew(a_args)
    /\ a_new' = DateTime_new(a_cal, a_args[1], a_args[2], a_args[3], a_args[4],
                             a_args[5], a_args[6], a_args[7])
    /\ UNCHANGED <<a_cal, a_args, a_out, a_kind, a_carry>>
    /\ UNCHANGED rest_abn

AbnCarry ==
    /\ a_out # None /\ a_new = None /\ a_carry = None
    /\ \E kind \in CarryKinds :
          /\ CarryApplies(kind, a_args)
          /\ a_kind' = kind
          /\ a_carry' = new_abnormal_of(a_cal, Carried(a_cal, kind, a_args))
    /\ UNCHANGED <<a_cal, a_args, a_out, a_new>>
    /\ UNCHANGED rest_abn

AbnNext == AbnCall \/ AbnNew \/ AbnCarry

SpecAbn == AbnInit /\ [][AbnNext]_vars

\* C8: new_abnormal returns a DateTime for every argument: no assertion, no
\* unwrap of day_number or from_day_number and no integer overflow panics.
C8_NeverPanics == a_out # None => IsOk(a_out)

\* C9: moving one unit of carry between adjacent arguments does not change the
\* result of new_abnormal, and for arguments in their nominal ranges
\* (second <= 59) the result equals that of DateTime::new.
C9_Carries ==
    /\ a_carry # None => a_carry = a_out
    /\ (a_new # None /\ IsOk(a_new) /\ a_args[6] <= 59) => a_out = a_new

\* ------------------------------------------------------------------------
\* Instant -> DateTime<C, S> -> Instant
\* ------------------------------------------------------------------------

\* the leap seconds around which instants are taken
ConvLeaps == {1, 4, 28}

\* whole days from Epoch::Y2k at which instants are taken
ConvDayBound == 3

\* whole days from the Gregorian epoch, before it, at which instants are taken
ConvBcDays == {-1768, -1403, -1402, -366}

ConvOffsets == {<<-2, 0>>, <<-1, 0>>, <<0, -500>>, <<0, -1>>, <<0, 0>>, <<0, 500>>, <<1, 0>>}

ConvPool ==
    {Instant_add(leap_instant(n), Duration_new(WInt(o[1]), o[2])) :
        n \in ConvLeaps, o \in ConvOffsets}
    \cup {Instant_add(Epoch_Y2k, Duration_new(WMul86400(WInt(k)), a)) :
            k \in -ConvDayBound .. ConvDayBound, a \in {0, 1}}
    \cup {Instant_add(Epoch_GregorianCalendar, Duration_new(WMul86400(WInt(k)), 0)) :
            k \in ConvBcDays}
    \cup {Epoch_GregorianCalendar, Epoch_JulianCalendar, Epoch_Ntp, Epoch_Unix,
          Epoch_TimeStandard, Epoch_Y1977}

ConvInit ==
    /\ v_cal \in Calendars
    /\ v_std \in Standards
    /\ v_i \in ConvPool
    /\ v_dt = None /\ v_back = None
    /\ overflow_checks = TRUE
    /\ ConvRestIdle

ConvToDateTime ==
    /\ v_dt = None
    /\ v_dt' = DateTime_from_Instant(v_cal, v_std, v_i)
    /\ UNCHANGED <<v_cal, v_std, v_i, v_back>>
    /\ UNCHANGED rest_conv

ConvToInstant ==
    /\ IsOk(v_dt) /\ v_back = None
    /\ v_back' = Ok(Instant_from_DateTime(v_cal, v_std, v_dt.val))
    /\ UNCHANGED <<v_cal, v_std, v_i, v_dt>>
    /\ UNCHANGED rest_conv

ConvNext == ConvToDateTime \/ ConvToInstant

SpecConv == ConvInit /\ [][ConvNext]_vars

\* C2: for every Instant i and each standard TT, TAI and UTC,
\* Instant::from(DateTime::<C,S>::from(i)) = i; under UTC also for an instant
\* inside a leap second, whose DateTime shows second = 60.
C2_RoundTrip ==
    /\ v_dt # None => IsOk(v_dt)
    /\ v_back # None => v_back = Ok(v_i)

\* ------------------------------------------------------------------------
\* DateTime<C, S> -> the other calendar -> back
\* ------------------------------------------------------------------------

XcYearBound == 8

XcYears == (-XcYearBound .. XcYearBound) \cup {-4714, -4713, 1582, 2000}

XcDays == {1, 2, 5, 15, 24, 27, 28, 29, 30, 31}

XcTimes == {<<0, 0, 0, 0>>, <<23, 59, 60, ATTOS_PER_SEC_I64 - 1>>}

XcInputs(C) ==
    {DateTime_new(C, y, m, d, t[1], t[2], t[3], t[4]).val :
        <<y, m, d, t>> \in {q \in XcYears \X (1 .. 12) \X XcDays \X XcTimes :
                               q[3] <= month_days(C, q[2], q[1])}}

XcInit ==
    /\ x_from \in Calendars
    /\ x_dt \in XcInputs(x_from)
    /\ x_conv = None /\ x_back = None
    /\ overflow_checks = TRUE
    /\ XcRestIdle

XcConvert ==
    /\ x_conv = None
    /\ x_conv' = try_from_calendar(x_from, x_dt)
    /\ UNCHANGED <<x_from, x_dt, x_back>>
    /\ UNCHANGED rest_xc

XcConvertBack ==
    /\ IsOk(x_conv) /\ x_back = None
    /\ x_back' = try_from_calendar(Other(x_from), x_conv.val)
    /\ UNCHANGED <<x_from, x_dt, x_conv>>
    /\ UNCHANGED rest_xc

XcNext == XcConvert \/ XcConvertBack

SpecXc == XcInit /\ [][XcNext]_vars

\* C3: converting a valid DateTime to the other calendar and converting the
\* result back yields a DateTime equal to the original in all seven fields.
C3_OwnInverse ==
    /\ x_conv # None => IsOk(x_conv)
    /\ x_back # None => (IsOk(x_back) /\ fields(x_back.val) = fields(x_dt))

\* ------------------------------------------------------------------------
\* Julian days: from_julian_day_precise, then as_julian_day_precise
\* ------------------------------------------------------------------------

JdDayBound == 3

JdDays == (-JdDayBound .. JdDayBound) \cup {-2451545, 2451545}

JdSeconds == {0, 1, 100, SECS_PER_DAY - 1, SECS_PER_DAY, SECS_PER_DAY + 1}

JdAttos == {-1, 0, 1, ATTOS_PER_SEC_I64 - 1, ATTOS_PER_SEC_I64}

JdInit ==
    /\ j_args \in JdDays \X JdSeconds \X JdAttos
    /\ j_inst = None /\ j_back = None
    /\ overflow_checks = TRUE
    /\ JdRestIdle

JdFrom ==
    /\ j_inst = None
    /\ j_inst' = from_julian_day_precise(WInt(j_args[1]), j_args[2], j_args[3])
    /\ UNCHANGED <<j_args, j_back>>
    /\ UNCHANGED rest_jd

JdAs ==
    /\ IsOk(j_inst) /\ j_back = None
    /\ j_back' = Ok(as_julian_day_precise(j_inst.val))
    /\ UNCHANGED <<j_args, j_inst>>
    /\ UNCHANGED rest_jd

JdNext == JdFrom \/ JdAs

SpecJd == JdInit /\ [][JdNext]_vars

\* C10: from_julian_day_precise(day, seconds, attoseconds) returns RangeError
\* exactly when seconds >= 86400 or attoseconds is outside [0, one second), and
\* otherwise as_julian_day_precise of the Instant is (day, seconds, attoseconds).
C10_Inverse ==
    /\ j_inst # None =>
          (j_inst = RangeError <=>
             (j_args[2] >= SECS_PER_DAY \/ j_args[3] < 0 \/ j_args[3] >= ATTOS_PER_SEC_I64))
    /\ j_back # None => j_back = Ok(<<WInt(j_args[1]), j_args[2], j_args[3]>>)

\* ------------------------------------------------------------------------
\* Instant -> NTP date -> Instant
\* ------------------------------------------------------------------------

\* the leap seconds around which instants are taken (the 7th is at Epoch::Y1977)
NtpLeaps == {1, 7, 8, 28}

\* instants are taken at half-second steps up to this many half seconds either
\* side of a leap instant
NtpHalfSteps == 7

\* whole seconds either side of Epoch::Ntp at which instants are taken
NtpNearEpoch == 3

NtpPool ==
    {Instant_add(leap_instant(n), Duration_new(WInt(0), k * (ATTOS_PER_SEC_I64 \div 2))) :
        n \in NtpLeaps, k \in -NtpHalfSteps .. NtpHalfSteps}
    \cup {Instant_add(Epoch_Ntp, Duration_new(WInt(k), a)) :
            k \in -NtpNearEpoch .. NtpNearEpoch, a \in {-1, 0, 1}}
    \cup {Epoch_Unix, Epoch_TimeStandard, Epoch_Y2k, Epoch_GregorianCalendar}

NtpInit ==
    /\ n_i \in NtpPool
    /\ n_ntp = None /\ n_back = None /\ n_clock = None
    /\ overflow_checks = TRUE
    /\ NtpRestIdle

NtpAs ==
    /\ n_ntp = None
    /\ n_ntp' = Ok(as_ntp_date(n_i))
    /\ UNCHANGED <<n_i, n_back, n_clock>>
    /\ UNCHANGED rest_ntp

NtpFrom ==
    /\ IsOk(n_ntp) /\ n_back = None
    /\ n_back' = Ok(from_ntp_date(n_ntp.val[1], n_ntp.val[2]))
    /\ UNCHANGED <<n_i, n_ntp, n_clock>>
    /\ UNCHANGED rest_ntp

NtpNext == NtpAs \/ NtpFrom

SpecNtp == NtpInit /\ [][NtpNext]_vars

\* C11: for every Instant i, from_ntp_date applied to i.as_ntp_date() is i,
\* also at half-second steps within a few seconds either side of a leap
\* instant.
C11_NtpRoundTrip == n_back # None => n_back = Ok(n_i)

\* ------------------------------------------------------------------------
\* DateTime<C, Utc> -> Instant -> DateTime<C, Tai>
\* ------------------------------------------------------------------------

\* the dates (year, month, day) of the UTC DateTimes that are converted
UtcDates ==
    {<<1900, 1, 1>>, <<1969, 12, 31>>,
     <<1970, 1, 1>>, <<1971, 12, 31>>, <<1972, 1, 1>>, <<1976, 12, 31>>, <<1977, 1, 1>>,
     <<1998, 12, 31>>, <<1999, 1, 1>>, <<1999, 12, 31>>, <<2000, 1, 1>>, <<2016, 12, 31>>,
     <<2017, 1, 1>>, <<2026, 1, 1>>}

\* their times of day (hour, minute, second, attosecond)
UtcTimes ==
    {<<0, 0, 0, 0>>, <<0, 0, 0, 1>>, <<0, 0, 1, 0>>, <<12, 0, 0, 0>>, <<23, 59, 59, 0>>,
     <<23, 59, 59, ATTOS_PER_SEC_I64 - 1>>, <<23, 59, 60, 0>>}

UtcPool(C) ==
    {DateTime_new(C, d[1], d[2], d[3], t[1], t[2], t[3], t[4]) : d \in UtcDates, t \in UtcTimes}

UtcInit ==
    /\ v_cal \in Calendars
    /\ v_std = "UTC"
    /\ v_dt \in UtcPool(v_cal)
    /\ v_i = None /\ v_back = None
    /\ overflow_checks = TRUE
    /\ ConvRestIdle

\* let i: Instant = s1.into()
UtcToInstant ==
    /\ v_i = None
    /\ v_i' = Ok(Instant_from_DateTime(v_cal, "UTC", v_dt.val))
    /\ UNCHANGED <<v_cal, v_std, v_dt, v_back>>
    /\ UNCHANGED rest_conv

\* i.into()
UtcToTai ==
    /\ IsOk(v_i) /\ v_back = None
    /\ v_back' = DateTime_from_Instant(v_cal, "TAI", v_i.val)
    /\ UNCHANGED <<v_cal, v_std, v_dt, v_i>>
    /\ UNCHANGED rest_conv

UtcNext == UtcToInstant \/ UtcToTai

SpecUtc == UtcInit /\ [][UtcNext]_vars

\* the conversion of DateTime<Gregorian, Utc> 2000-01-01 00:00:00.0 has been made
C12_Witness ==
    /\ is_gregorian(v_cal)
    /\ v_dt = DateTime_new(v_cal, 2000, 1, 1, 0, 0, 0, 0)
    /\ IsOk(v_back)

\* C12 as stated: DateTime<Gregorian, Utc> 2000-01-01 00:00:00.0 converted to
\* DateTime<Gregorian, Tai> is 2000-01-01 00:00:32.184 TAI.
C12_Original ==
    (is_gregorian(v_cal) /\ v_dt = DateTime_new(v_cal, 2000, 1, 1, 0, 0, 0, 0)
        /\ v_back # None)
    => (IsOk(v_back) /\ fields(v_back.val) = <<2000, 1, 1, 0, 0, 32, Millis(184)>>)

\* C12: DateTime<Gregorian, Utc> 2000-01-01 00:00:00.0 converted to
\* DateTime<Gregorian, Tai> through Instant is 2000-01-01 00:00:32.0 TAI: the
\* Instant is Epoch::Y2k, and TAI is ahead of UTC by the 9 s of before 1972
\* and the 23 leap seconds elapsed, with no fraction of a second.
C12_UtcToTaiAtY2k ==
    /\ (is_gregorian(v_cal) /\ v_dt = DateTime_new(v_cal, 2000, 1, 1, 0, 0, 0, 0)
          /\ v_i # None)
       => v_i = Ok(Epoch_Y2k)
    /\ (is_gregorian(v_cal) /\ v_dt = DateTime_new(v_cal, 2000, 1, 1, 0, 0, 0, 0)
          /\ v_back # None)
       => (IsOk(v_back) /\ fields(v_back.val) = <<2000, 1, 1, 0, 0, 32, 0>>)

\* ------------------------------------------------------------------------
\* SystemTime -> Instant
\* ------------------------------------------------------------------------

\* the leap seconds around which clock readings are taken
SysLeaps == {1, 2, 7, 28}

\* clock readings are taken from this many seconds before the POSIX time of a
\* leap second to this many seconds after the last reading that the leap
\* seconds elapsed can bring across it
SysSlack == 2

\* seconds from Epoch::Ntp to Epoch::Unix
SysNtpToUnix == Duration_sub(Epoch_Unix, Epoch_Ntp).secs

\* whole seconds before the Unix epoch at which clock readings are taken
SysBefore == {WInt(0), WInt(1), WInt(86400), WDec(220, 924791), WDec(2208, 988800)}

SysPool ==
    {SystemTime(FALSE,
                StdDuration(FALSE,
                            WAdd(WSub(IANA_NTP_LEAP_SECONDS[n], SysNtpToUnix), WInt(k)), a)) :
        n \in SysLeaps, k \in -SysSlack .. Len(IANA_NTP_LEAP_SECONDS) + SysSlack, a \in {0, 500}}
    \cup {SystemTime(b, StdDuration(FALSE, s, a)) :
            b \in BOOLEAN, s \in SysBefore, a \in {0, 1, 999}}
    \cup {SystemTime(b, StdDuration(TRUE, WInt(0), 0)) : b \in BOOLEAN}

SysInit ==
    /\ s_d \in SysPool
    /\ s_inst = None
    /\ overflow_checks = TRUE
    /\ SysRestIdle

SysTryFrom ==
    /\ s_inst = None
    /\ s_inst' = Instant_try_from(s_d)
    /\ UNCHANGED s_d
    /\ UNCHANGED rest_sys

SysNext == SysTryFrom

SpecSys == SysInit /\ [][SysNext]_vars

\* Epoch::Unix + d for the clock reading s_d
SysBase ==
    Instant_add(Epoch_Unix,
                IF s_d.before THEN Duration_neg(Duration_try_from(s_d.dur).val)
                ELSE Duration_try_from(s_d.dur).val)

\* the second pass has added a leap second that the first pass brought the
\* instant across, after a reading past the Unix epoch
C13_Witness ==
    /\ IsOk(s_inst) /\ ~s_d.before
    /\ leap_seconds_elapsed_at(s_inst.val) > leap_seconds_elapsed_at(SysBase)

\* C13: for every clock reading d, before or after the Unix epoch, the Instant
\* r that TryFrom<SystemTime> returns is Epoch::Unix + d + the leap seconds
\* elapsed at r: a third pass would add nothing.
C13_FixedPoint ==
    IsOk(s_inst) =>
        s_inst.val =
            Instant_add(SysBase, Duration_new(WInt(leap_seconds_elapsed_at(s_inst.val)), 0))

\* ------------------------------------------------------------------------
\* A DateTime<C, S> and one call of a single-field setter
\* ------------------------------------------------------------------------

SetDates ==
    {<<I32_MIN, 1, 1>>, <<-4, 2, 29>>, <<0, 12, 31>>, <<1, 1, 1>>, <<1900, 2, 28>>,
     <<2000, 1, 30>>, <<2000, 2, 29>>, <<2001, 1, 31>>, <<I32_MAX, 12, 31>>}

SetTimes == {<<0, 0, 0, 0>>, <<12, 30, 30, 500>>, <<23, 59, 60, ATTOS_PER_SEC_I64 - 1>>}

SetPool(C) ==
    {r.val : r \in {x \in {DateTime_new(C, d[1], d[2], d[3], t[1], t[2], t[3], t[4]) :
                             d \in SetDates, t \in SetTimes} : IsOk(x)}}

SetYears == {I32_MIN, -4, -1, 0, 1, 1900, 2001, I32_MAX}

SetYearsBc == {I32_MIN, I32_MIN + 1, -1, 0, 1, 5, I32_MAX}

SetMonths == {0, 1, 2, 4, 12, 13, 255}

SetDays == {0, 1, 28, 29, 30, 31, 32, 255}

SetHours == {0, 23, 24, 255}

SetMinutes == {0, 59, 60, 255}

SetSeconds == {0, 59, 60, 61, 255}

SetAttos == {0, 1, ATTOS_PER_SEC_I64 - 1, ATTOS_PER_SEC_I64, ATTOS_PER_SEC_I64 + 1}

SetInit ==
    /\ t_cal \in Calendars
    /\ t_std = "UTC"
    /\ t_dt \in SetPool(t_cal)
    /\ t_call = None /\ t_res = None
    /\ overflow_checks \in BOOLEAN
    /\ DtRestIdle

\* the call op(arg) on t_dt, with the value and the result r it leaves
SetCall(op, arg, r) ==
    /\ t_call = None
    /\ t_call' = [op |-> op, arg |-> arg, before |-> t_dt]
    /\ t_res' = r.res
    /\ t_dt' = r.dt
    /\ UNCHANGED <<t_cal, t_std, overflow_checks>>
    /\ UNCHANGED rest_dt

SetYear == \E y \in SetYears : SetCall("set_year", y, set_year(t_dt, y))

SetYearBc == \E y \in SetYearsBc : SetCall("set_year_bc", y, set_year_bc(t_dt, y))

SetMonth == \E m \in SetMonths : SetCall("set_month", m, set_month(t_cal, t_dt, m))

SetDay == \E d \in SetDays : SetCall("set_day", d, set_day(t_cal, t_dt, d))

SetHour == \E h \in SetHours : SetCall("set_hour", h, set_hour(t_dt, h))

SetMinute == \E m \in SetMinutes : SetCall("set_minute", m, set_minute(t_dt, m))

SetSecond == \E s \in SetSeconds : SetCall("set_second", s, set_second(t_dt, s))

SetAttosecond == \E a \in SetAttos : SetCall("set_attosecond", a, set_attosecond(t_dt, a))

SetNext ==
    \/ SetYear \/ SetYearBc \/ SetMonth \/ SetDay
    \/ SetHour \/ SetMinute \/ SetSecond \/ SetAttosecond

SpecSet == SetInit /\ [][SetNext]_vars

\* the place in fields(..) of the field that a setter is for
SetOwnField(op) ==
    CASE op \in {"set_year", "set_year_bc"} -> 1
      [] op = "set_month" -> 2
      [] op = "set_day" -> 3
      [] op = "set_hour" -> 4
      [] op = "set_minute" -> 5
      [] op = "set_second" -> 6
      [] op = "set_attosecond" -> 7

C15_AttosecondRange ==
    (t_call # None /\ t_call.op = "set_attosecond") =>
        /\ t_call.arg >= ATTOS_PER_SEC_I64 => (t_res = "RangeError" /\ t_dt = t_call.before)
        /\ t_res = "Ok" => t_call.arg < ATTOS_PER_SEC_I64

\* ------------------------------------------------------------------------
\* The weekday of a DateTime and of its conversion to the other calendar
\* ------------------------------------------------------------------------

WdInit ==
    /\ x_from \in Calendars
    /\ x_dt \in XcInputs(x_from)
    /\ x_conv = None /\ x_back = None
    /\ overflow_checks = TRUE
    /\ XcRestIdle

WdConvert ==
    /\ x_conv = None
    /\ x_conv' = try_from_calendar(x_from, x_dt)
    /\ UNCHANGED <<x_from, x_dt, x_back>>
    /\ UNCHANGED rest_xc

\* x_back holds x_dt.weekday() and, after a conversion, its weekday() too
WdWeekday ==
    /\ x_conv # None /\ x_back = None
    /\ x_back' = Ok([own |-> weekday(x_from, x_dt),
                     conv |-> IF IsOk(x_conv) THEN weekday(Other(x_from), x_conv.val)
                              ELSE 0])
    /\ UNCHANGED <<x_from, x_dt, x_conv>>
    /\ UNCHANGED rest_xc

WdNext == WdConvert \/ WdWeekday

SpecWd == WdInit /\ [][WdNext]_vars

\* C16: weekday() is in 1..=7 for every valid DateTime, also one whose day
\* number is negative, and a Gregorian DateTime and its conversion to the
\* Julian calendar report the same weekday.
C16_Weekday ==
    x_back # None =>
        /\ x_back.val.own \in 1 .. 7
        /\ (is_gregorian(x_from) /\ IsOk(x_conv)) => x_back.val.conv = x_back.val.own

\* the weekdays of a Gregorian DateTime of a negative day number and of its
\* conversion to the Julian calendar have been taken
C16_Witness ==
    /\ x_back # None /\ is_gregorian(x_from) /\ IsOk(x_conv)
    /\ WIsNeg(DateTime_day_number(x_from, x_dt))

\* ------------------------------------------------------------------------
\* The calendars at the ends of their range
\* ------------------------------------------------------------------------

EdgeYears == {I32_MIN, I32_MIN + 1, 1, 2, 1999, 2000, I32_MAX - 1, I32_MAX}

EdgeMonthDays == {<<1, 1>>, <<1, 2>>, <<2, 28>>, <<3, 1>>, <<12, 30>>, <<12, 31>>}

EdgeDates == {<<y, md[1], md[2]>> : y \in EdgeYears, md \in EdgeMonthDays}

\* day numbers are taken up to this many days either side of the least and
\* of the greatest day number of a calendar
EdgeBeyond == 3

EdgeDayNumbers(C) ==
    {WAdd(l, WInt(k)) : l \in {day_number_min(C), day_number_max(C), WInt(0)},
                        k \in -EdgeBeyond .. EdgeBeyond}

\* c_date is a date, or NoDate when from_day_number is given a day number
\* that is not taken from day_number
NoDate == <<>>

EdgeInit ==
    /\ c_cal \in Calendars
    /\ c_date \in EdgeDates \cup {NoDate}
    /\ c_dn = None /\ c_back = None
    /\ overflow_checks = TRUE
    /\ CalRestIdle

EdgeDayNumber ==
    /\ c_date # NoDate /\ c_dn = None
    /\ c_dn' = day_number(c_cal, c_date[1], c_date[2], WInt(c_date[3]))
    /\ UNCHANGED <<c_cal, c_date, c_back>>
    /\ UNCHANGED rest_cal

EdgePick ==
    /\ c_date = NoDate /\ c_dn = None
    /\ \E dn \in EdgeDayNumbers(c_cal) : c_dn' = Ok(dn)
    /\ UNCHANGED <<c_cal, c_date, c_back>>
    /\ UNCHANGED rest_cal

EdgeFromDayNumber ==
    /\ IsOk(c_dn) /\ c_back = None
    /\ c_back' = from_day_number(c_cal, c_dn.val)
    /\ UNCHANGED <<c_cal, c_date, c_dn>>
    /\ UNCHANGED rest_cal

EdgeNext == EdgeDayNumber \/ EdgePick \/ EdgeFromDayNumber

SpecEdge == EdgeInit /\ [][EdgeNext]_vars

\* the day number that C17 gives for a date at an end of the range
EdgeExpected(C, date) ==
    CASE date = <<1, 1, 1>> -> WInt(0)
      [] date = <<I32_MIN, 1, 1>> -> day_number_min(C)
      [] date = <<I32_MAX, 12, 31>> -> day_number_max(C)

\* the least date of a calendar has been taken to its day number and back
C17_Witness ==
    /\ c_date = <<I32_MIN, 1, 1>> /\ IsOk(c_dn) /\ IsOk(c_back)

\* C17: in both calendars day_number(1,1,1) is 0 and from_day_number(0) is
\* (1,1,1); day_number(i32::MIN,1,1) and day_number(i32::MAX,12,31) are Ok,
\* are the documented least and greatest day numbers, and from_day_number
\* takes them back to those dates; from_day_number returns RangeError for a
\* day number below the least or above the greatest.
C17_Boundaries ==
    /\ (c_date \in {<<1, 1, 1>>, <<I32_MIN, 1, 1>>, <<I32_MAX, 12, 31>>} /\ c_dn # None)
          => c_dn = Ok(EdgeExpected(c_cal, c_date))
    /\ (c_date \in {<<1, 1, 1>>, <<I32_MIN, 1, 1>>, <<I32_MAX, 12, 31>>} /\ c_back # None)
          => c_back = Ok(c_date)
    /\ (c_date = NoDate /\ c_back # None)
          => /\ c_dn.val = WInt(0) => c_back = Ok(<<1, 1, 1>>)
             /\ c_dn.val = day_number_min(c_cal) => c_back = Ok(<<I32_MIN, 1, 1>>)
             /\ c_dn.val = day_number_max(c_cal) => c_back = Ok(<<I32_MAX, 12, 31>>)
             /\ (WLt(c_dn.val, day_number_min(c_cal)) \/ WLt(day_number_max(c_cal), c_dn.val))
                   <=> c_back = RangeError

\* the POSIX time of a Gregorian UTC DateTime: 86400 seconds for each day
\* since 1970-01-01, and the seconds of the time of day
PosixTime(dt) ==
    WAdd(WMul86400(WSub(DateTime_day_number("Gregorian", dt),
                        day_number("Gregorian", 1970, 1, WInt(1)).val)),
         WInt(hour(dt) * 3600 + minute(dt) * 60 + second(dt)))

\* the Instant of DateTime<Gregorian, Utc> 2026-01-01 00:00:00.0 has been taken
C18_Witness ==
    /\ is_gregorian(v_cal) /\ IsOk(v_i)
    /\ v_dt = DateTime_new(v_cal, 2026, 1, 1, 0, 0, 0, 0)

\* C18 as stated: for every DateTime<Gregorian, Utc> u that is not itself a
\* leap second, the seconds part of Instant::from(u) - Epoch::Unix.as_instant()
\* is the POSIX time of u plus the leap seconds elapsed at Instant::from(u).
C18_Original ==
    (is_gregorian(v_cal) /\ IsOk(v_i) /\ second(v_dt.val) # 60) =>
        seconds_part(Duration_sub(v_i.val, Epoch_Unix))
          = WAdd(PosixTime(v_dt.val), WInt(leap_seconds_elapsed_at(v_i.val)))

\* C18: for every DateTime<Gregorian, Utc> u that is not itself a leap
\* second, Instant::from(u) - Epoch::Unix.as_instant() is the Duration of the
\* POSIX time of u plus the leap seconds elapsed at Instant::from(u), in
\* seconds, and the attoseconds of u.  Its seconds part is that sum of seconds
\* when u is not before 1970 or has no fraction of a second, and one more
\* than it otherwise; for 2026-01-01 00:00:00 UTC it is 1767225600 + 28.
C18_UnixPlusLeaps ==
    (is_gregorian(v_cal) /\ IsOk(v_i) /\ second(v_dt.val) # 60) =>
        /\ Duration_sub(v_i.val, Epoch_Unix)
             = Duration_new(WAdd(PosixTime(v_dt.val), WInt(leap_seconds_elapsed_at(v_i.val))),
                            attosecond(v_dt.val))
        /\ seconds_part(Duration_sub(v_i.val, Epoch_Unix))
             = WAdd(WAdd(PosixTime(v_dt.val), WInt(leap_seconds_elapsed_at(v_i.val))),
                    WInt(IF WIsNeg(PosixTime(v_dt.val)) /\ attosecond(v_dt.val) > 0
                         THEN 1 ELSE 0))
        /\ v_dt = DateTime_new(v_cal, 2026, 1, 1, 0, 0, 0, 0)
             => seconds_part(Duration_sub(v_i.val, Epoch_Unix)) = WDec(1767, 225628)

\* ------------------------------------------------------------------------
\* The leap-day term of day_number
\* ------------------------------------------------------------------------

\* years on the March 1st basis are taken up to this many years either side
\* of year 0
TermYearBound == 120

\* year - m0/10 for an i32 year: from i32::MIN - 1 to i32::MAX
TermYears ==
    {WInt(y) : y \in -TermYearBound .. TermYearBound}
    \cup {WSub(WInt(I32_MIN), WInt(1)), WInt(I32_MIN), WInt(I32_MIN + 1), WInt(-401),
          WInt(-400), WInt(-399), WInt(399), WInt(400), WInt(2000), WInt(I32_MAX)}

TermInit ==
    /\ y_cal \in Calendars
    /\ y_y \in TermYears
    /\ y_term = None
    /\ overflow_checks = TRUE
    /\ TermRestIdle

TermLeapDays ==
    /\ y_term = None
    /\ y_term' = Ok(leap_day_term(y_cal, y_y))
    /\ UNCHANGED <<y_cal, y_y>>
    /\ UNCHANGED rest_term

TermNext == TermLeapDays

SpecTerm == TermInit /\ [][TermNext]_vars

\* floor(y/4), and floor(y/4) - floor(y/100) + floor(y/400) in the Gregorian
\* calendar
TermFloor(C, y) ==
    IF is_gregorian(C)
    THEN WAdd(WSub(WFloorDiv(y, 4), WFloorDiv(y, 100)), WFloorDiv(y, 400))
    ELSE WFloorDiv(y, 4)

\* C19: for every year y on the March 1st basis, negative ones too, the
\* leap-day term of day_number, y/4 + (y>>63) and in the Gregorian calendar
\* - y/100 + y/400, is floor(y/4), in the Gregorian calendar
\* floor(y/4) - floor(y/100) + floor(y/400).
C19_LeapDayTerm == y_term # None => y_term.val = TermFloor(y_cal, y_y)

\* ------------------------------------------------------------------------
\* from_day_number: the year estimate and its correction
\* ------------------------------------------------------------------------

\* day numbers are taken up to this many days either side of the epoch, of
\* day 730119 (2000-01-01 Gregorian), and inside the ends of the range
FdnDayBound == 1500

FdnNearEnds == 400

FdnDayNumbers(C) ==
    {WInt(k) : k \in -FdnDayBound .. FdnDayBound}
    \cup {WInt(730119 + k) : k \in -FdnNearEnds .. FdnNearEnds}
    \cup {WAdd(day_number_min(C), WInt(k)) : k \in 0 .. FdnNearEnds}
    \cup {WSub(day_number_max(C), WInt(k)) : k \in 0 .. FdnNearEnds}

FdnInit ==
    /\ c_cal \in Calendars
    /\ c_dn \in {Ok(dn) : dn \in FdnDayNumbers(c_cal)}
    /\ c_date = None /\ c_back = None
    /\ overflow_checks = TRUE
    /\ CalRestIdle

\* c_date holds the year estimated, the year corrected and the remaining
\* days; c_back the result
FdnFromDayNumber ==
    /\ c_back = None
    /\ c_back' = from_day_number(c_cal, c_dn.val)
    /\ c_date' = from_day_number_year(c_cal, c_dn.val)
    /\ UNCHANGED <<c_cal, c_dn>>
    /\ UNCHANGED rest_cal

FdnNext == FdnFromDayNumber

SpecFdn == FdnInit /\ [][FdnNext]_vars

\* the days from 1 March of year 0 to 1 March of year y: 365 a year and the
\* leap days by floor(y/4), - floor(y/100) + floor(y/400) in the Gregorian
\* calendar
FdnYearStart(C, y) ==
    WAdd(WMul(y, 365),
         IF is_gregorian(C)
         THEN WAdd(WSub(WFloorDiv(y, 4), WFloorDiv(y, 100)), WFloorDiv(y, 400))
         ELSE WFloorDiv(y, 4))

\* the day number, on the March 1st basis, lies in year y
FdnInYear(C, dn, y) ==
    /\ WLe(FdnYearStart(C, y), WAdd(dn, WInt(306)))
    /\ WLt(WAdd(dn, WInt(306)), FdnYearStart(C, WAdd(y, WInt(1))))

\* C20: for every day number in range the year that from_day_number first
\* estimates is the year of the day or one more; after at most one decrement
\* the remaining days are in 0..=365, no assertion fails, and the result is
\* Ok with a valid date.
C20_EstimateAndCorrection ==
    c_back # None =>
        /\ \/ FdnInYear(c_cal, c_dn.val, c_date.estimate)
           \/ FdnInYear(c_cal, c_dn.val, WSub(c_date.estimate, WInt(1)))
        /\ ~WIsNeg(c_date.remaining_days) /\ WLe(c_date.remaining_days, WInt(365))
        /\ IsOk(c_back)
        /\ c_back.val[2] \in 1 .. 12
        /\ c_back.val[3] \in 1 .. month_days(c_cal, c_back.val[2], c_back.val[1])

\* ------------------------------------------------------------------------
\* Instant -> DateTime<C, Utc> at the leap seconds (under SpecConv)
\* ------------------------------------------------------------------------

\* the instant i lies inside the n-th leap second: in [L - 1 s, L) for the
\* n-th leap instant L
InsideLeap(i, n) ==
    /\ Duration_ge(i, Instant_sub(leap_instant(n), Duration_new(WInt(1), 0)))
    /\ Duration_lt(i, leap_instant(n))

InsideALeap(i) == \E n \in 1 .. Len(IANA_NTP_LEAP_SECONDS) : InsideLeap(i, n)

\* C21: DateTime::<C,Utc>::from(i) has second == 60 exactly when i lies inside
\* a leap second, in [L - 1 s, L) for a leap instant L; then it reads 23:59:60
\* on the UTC day that ends at L, with the part of a second that i is past
\* L - 1 s, and the assertion on the second before the adjustment holds; for
\* every other instant the second is in 0..=59, and L reads 00:00:00.
C21_LeapSecondReads60 ==
    (v_std = "UTC" /\ v_dt # None) =>
        /\ IsOk(v_dt)
        /\ second(v_dt.val) = 60 <=> InsideALeap(v_i)
        /\ second(v_dt.val) \in 0 .. 60
        /\ \A n \in 1 .. Len(IANA_NTP_LEAP_SECONDS) :
              /\ InsideLeap(v_i, n) =>
                    /\ <<hour(v_dt.val), minute(v_dt.val)>> = <<23, 59>>
                    /\ attosecond(v_dt.val)
                         = Duration_sub(v_i, Instant_sub(leap_instant(n),
                                                         Duration_new(WInt(1), 0))).attos
                    /\ WAdd(DateTime_day_number(v_cal, v_dt.val), WInt(1))
                         = DateTime_day_number(v_cal,
                               DateTime_from_Instant(v_cal, "UTC", leap_instant(n)).val)
              /\ v_i = leap_instant(n) => time(v_dt.val) = <<0, 0, 0, 0>>

\* ------------------------------------------------------------------------
\* An NTP date -> Instant, and the same reading of the system clock
\* ------------------------------------------------------------------------

\* the leap seconds around whose NTP seconds the NTP dates are taken
NdLeaps == {1, 7, 28}

\* NTP dates are taken up to this many seconds either side of the NTP second
\* of a leap second, of the NTP epoch and of the Unix epoch
NdSeconds == 3

NdAttos == {0, 1, 500, ATTOS_PER_SEC_I64 - 1}

NdPool ==
    {<<WAdd(t, WInt(k)), a>> :
        t \in {IANA_NTP_LEAP_SECONDS[n] : n \in NdLeaps} \cup {WInt(0), SysNtpToUnix},
        k \in -NdSeconds .. NdSeconds, a \in NdAttos}

\* the reading of the system clock at the NTP date (s, a): s seconds less the
\* seconds from the NTP epoch to the Unix epoch
NdClock(s, a) ==
    Let([d \in {Duration_new(WSub(s, SysNtpToUnix), a)} |->
      IF WIsNeg(d.secs) \/ d.attos < 0
      THEN SystemTime(TRUE, StdDuration(FALSE, WNeg(d.secs), -d.attos))
      ELSE SystemTime(FALSE, StdDuration(FALSE, d.secs, d.attos))])

NdInit ==
    /\ n_ntp \in {Ok(p) : p \in NdPool}
    /\ n_i = None /\ n_back = None /\ n_clock = None
    /\ overflow_checks = TRUE
    /\ NtpRestIdle

NdFromNtp ==
    /\ n_back = None
    /\ n_back' = Ok(from_ntp_date(n_ntp.val[1], n_ntp.val[2]))
    /\ UNCHANGED <<n_i, n_ntp, n_clock>>
    /\ UNCHANGED rest_ntp

NdFromClock ==
    /\ n_clock = None
    /\ n_clock' = Instant_try_from(NdClock(n_ntp.val[1], n_ntp.val[2]))
    /\ UNCHANGED <<n_i, n_ntp, n_back>>
    /\ UNCHANGED rest_ntp

\* n_i holds the NTP date of the Instant that from_ntp_date returned
NdAsNtp ==
    /\ IsOk(n_back) /\ n_i = None
    /\ n_i' = Ok(as_ntp_date(n_back.val))
    /\ UNCHANGED <<n_ntp, n_back, n_clock>>
    /\ UNCHANGED rest_ntp

NdNext == NdFromNtp \/ NdFromClock \/ NdAsNtp

SpecNd == NdInit /\ [][NdNext]_vars

\* n + L2 seconds, for n = Epoch::Ntp + (s, a), L1 the leap seconds elapsed at
\* n and L2 the leap seconds elapsed at n + L1 seconds
NdTwoPass(s, a) ==
    Let([n \in {Instant_add(Epoch_Ntp, Duration_new(s, a))} |->
      Instant_add(n,
          Duration_new(WInt(leap_seconds_elapsed_at(
              Instant_add(n, Duration_new(WInt(leap_seconds_elapsed_at(n)), 0)))), 0))])

\* C22: for every NTP date (s, a), from_ntp_date(s, a) is n + L2 seconds, with
\* n = Epoch::Ntp + (s, a), L1 the leap seconds elapsed at n and L2 those
\* elapsed at n + L1 seconds; it is the Instant that TryFrom<SystemTime>
\* returns for the same reading of the system clock.
C22_TwoPass ==
    /\ n_back # None => n_back = Ok(NdTwoPass(n_ntp.val[1], n_ntp.val[2]))
    /\ (n_back # None /\ n_clock # None) => n_clock = n_back

\* ------------------------------------------------------------------------
\* SpecTt: a duration since the epoch in TT is carried to TAI or UTC by
\* from_tt and back by to_tt (standard.rs)
\* ------------------------------------------------------------------------

TtLeaps == {1, 23, Len(IANA_NTP_LEAP_SECONDS)}

TtWindow == 100

\* the duration that test_to_from_tt starts from
TtTestDuration == Dur(WDec(21, 309887), Millis(214))

TtPool ==
    {Instant_add(leap_instant_without_leaps(n), Duration_new(WInt(s), a)) :
        n \in TtLeaps, s \in -TtWindow .. TtWindow, a \in {0, Millis(500)}}
    \cup {TtTestDuration, Duration_neg(TtTestDuration), Duration_new(WInt(0), 0),
          Instant_sub(Epoch_Ntp, Duration_new(WInt(1), Millis(500)))}

TtInit ==
    /\ q_std \in {"TAI", "UTC"}
    /\ q_d \in TtPool
    /\ q_u = None
    /\ q_back = None
    /\ overflow_checks = TRUE
    /\ TtRestIdle

TtFromTt ==
    /\ q_u = None
    /\ q_u' = Ok(from_tt(q_std, q_d))
    /\ UNCHANGED <<q_std, q_d, q_back>>
    /\ UNCHANGED rest_tt

TtToTt ==
    /\ q_u # None
    /\ q_back = None
    /\ q_back' = Ok(to_tt(q_std, q_u.val))
    /\ UNCHANGED <<q_std, q_d, q_u>>
    /\ UNCHANGED rest_tt

TtNext == TtFromTt \/ TtToTt

SpecTt == TtInit /\ [][TtNext]_vars

\* the whole second at which the count of leap_seconds_elapsed steps
Ambiguous(d) ==
    leap_seconds_elapsed(d) # leap_seconds_elapsed(Duration_sub(d, Duration_new(WInt(1), 0)))

C23_AmbiguousLosesOne ==
    (q_back # None /\ q_std = "UTC" /\ Ambiguous(q_d)) =>
        q_back = Ok(Duration_sub(q_d, Duration_new(WInt(1), 0)))

\* ------------------------------------------------------------------------
\* SpecDisp: normalized durations are written with Display, negated and
\* written again (duration.rs)
\* ------------------------------------------------------------------------

DispSecs == {0, 1, 59, 60, 3600, 3661, 86399, 86400, 86400 + 3600 * 2 + 60 + 1, 86400 * 100}

DispAttos == {0, 1, 31, ATTOS_PER_SEC_I64 - 1}

DispPool ==
    {Duration_new(WInt(s), a) : s \in DispSecs, a \in DispAttos}
    \cup {Duration_new(WInt(-s), -a) : s \in DispSecs, a \in DispAttos}
    \cup {Duration_new(WInt(-86400 * 3), 31)}

\* d_op is the last text written, with the duration it was written for
DispInit ==
    /\ d_val \in DispPool
    /\ d_op = None
    /\ overflow_checks = TRUE
    /\ DurRestIdle

DispFmt ==
    /\ IF IsOk(d_op) THEN d_op.val.of # d_val ELSE TRUE
    /\ d_op' = Ok([of |-> d_val, text |-> Duration_fmt(d_val)])
    /\ UNCHANGED d_val
    /\ UNCHANGED rest_dur

DispNeg ==
    /\ IsOk(d_op)
    /\ d_op.val.of = d_val
    /\ d_val' = Duration_neg(d_val)
    /\ UNCHANGED d_op
    /\ UNCHANGED rest_dur

DispNext == DispFmt \/ DispNeg

SpecDisp == DispInit /\ [][DispNext]_vars

Duration_zero == Duration_new(WInt(0), 0)

\* C24: the text of a normalized Duration begins with "-P" exactly when the
\* duration is negative (a negative fraction under zero whole seconds
\* included) and with "P" otherwise, and a duration other than zero is never
\* written as its negation is
C24_DisplaySign ==
    IsOk(d_op) =>
        /\ d_op.val.text[1].text = "-P" <=> Duration_lt(d_op.val.of, Duration_zero)
        /\ d_op.val.text[1].text = "P" <=> ~Duration_lt(d_op.val.of, Duration_zero)
        /\ (d_op.val.of = Duration_neg(d_val) /\ d_val # Duration_zero) =>
               Duration_fmt(d_val) # d_op.val.text

\* the sign is right whenever the whole seconds are not zero
C24_SignOfWholeSeconds ==
    (IsOk(d_op) /\ d_op.val.of.secs # WInt(0)) =>
        /\ d_op.val.text[1].text = "-P" <=> Duration_lt(d_op.val.of, Duration_zero)
        /\ (d_op.val.of = Duration_neg(d_val)) => Duration_fmt(d_val) # d_op.val.text

\* ------------------------------------------------------------------------
\* SpecSeq: a DateTime<C, S> under any sequence of calls of its setters
\* ------------------------------------------------------------------------

SeqDates == {<<2000, 1, 31>>, <<2000, 2, 29>>}

SeqTimes == {<<0, 0, 0, 0>>}

SeqPool(C) ==
    {r.val : r \in {x \in {DateTime_new(C, d[1], d[2], d[3], t[1], t[2], t[3], t[4]) :
                             d \in SeqDates, t \in SeqTimes} : IsOk(x)}}

SeqYears == {2001}

SeqYearsBc == {1}

SeqMonths == {2, 4, 13}

SeqDays == {0, 29, 31}

SeqSetDates == {<<2000, 2, 29>>, <<1900, 2, 29>>, <<2000, 1, 31>>}

SeqSetTimes == {<<12, 30, 30, 500>>, <<23, 60, 0, 0>>, <<0, 0, 0, 0>>}

SeqInit ==
    /\ t_cal \in Calendars
    /\ t_std = "UTC"
    /\ t_dt \in SeqPool(t_cal)
    /\ t_call = None /\ t_res = None
    /\ overflow_checks = TRUE
    /\ DtRestIdle

\* the call op(arg) on t_dt, with the value and the result r it leaves
SeqCall(op, arg, r) ==
    /\ t_call' = [op |-> op, arg |-> arg]
    /\ t_res' = r.res
    /\ t_dt' = r.dt
    /\ UNCHANGED <<t_cal, t_std, overflow_checks>>
    /\ UNCHANGED rest_dt

SeqSetYear == \E y \in SeqYears : SeqCall("set_year", y, set_year(t_dt, y))

SeqSetYearBc == \E y \in SeqYearsBc : SeqCall("set_year_bc", y, set_year_bc(t_dt, y))

SeqSetMonth == \E m \in SeqMonths : SeqCall("set_month", m, set_month(t_cal, t_dt, m))

SeqSetDay == \E d \in SeqDays : SeqCall("set_day", d, set_day(t_cal, t_dt, d))

SeqSetHour == \E h \in {23, 24} : SeqCall("set_hour", h, set_hour(t_dt, h))

SeqSetMinute == \E m \in {30, 60} : SeqCall("set_minute", m, set_minute(t_dt, m))

SeqSetSecond == \E s \in {30, 61} : SeqCall("set_second", s, set_second(t_dt, s))

SeqSetAttosecond ==
    \E a \in {500, ATTOS_PER_SEC_I64} :
        SeqCall("set_attosecond", a, set_attosecond(t_dt, a))

SeqSetDate == \E d \in SeqSetDates : SeqCall("set_date", d, set_date(t_cal, t_dt, d))

SeqSetTime == \E t \in SeqSetTimes : SeqCall("set_time", t, set_time(t_dt, t))

SeqNext ==
    \/ SeqSetYear \/ SeqSetYearBc \/ SeqSetMonth \/ SeqSetDay
    \/ SeqSetHour \/ SeqSetMinute \/ SeqSetSecond \/ SeqSetAttosecond
    \/ SeqSetDate \/ SeqSetTime

SpecSeq == SeqInit /\ [][SeqNext]_vars

\* C25: after any sequence of setter calls, succeeded or failed, the month is
\* in 1..=12, the day in 1..=month_days(month, year), the hour at most 23,
\* the minute at most 59, the second at most 60 and the attosecond below one
\* second
C25_SettersKeepValid ==
    /\ month(t_dt) \in 1 .. 12
    /\ day(t_dt) \in 1 .. month_days(t_cal, month(t_dt), year(t_dt))
    /\ hour(t_dt) <= 23
    /\ minute(t_dt) <= 59
    /\ second(t_dt) <= 60
    /\ attosecond(t_dt) < ATTOS_PER_SEC_I64

\* the fields that no setter can take out of range
C25_CheckedFields ==
    /\ month(t_dt) \in 1 .. 12
    /\ day(t_dt) \in 1 .. 31
    /\ hour(t_dt) <= 23
    /\ minute(t_dt) <= 59
    /\ second(t_dt) <= 60
    /\ attosecond(t_dt) <= ATTOS_PER_SEC_I64

\* the day is out of range only after the year was set under it
C25_DayAfterYear ==
    [][(day(t_dt) <= month_days(t_cal, month(t_dt), year(t_dt))
        /\ day(t_dt') > month_days(t_cal, month(t_dt'), year(t_dt')))
       => t_call'.op \in {"set_year", "set_year_bc", "set_date"}]_vars

\* the seven fields are in the ranges of DateTime::new
SeqValid(C, dt) ==
    IsOk(DateTime_new(C, year(dt), month(dt), day(dt), hour(dt), minute(dt), second(dt),
                      attosecond(dt)))

\* C27: on a valid DateTime, whatever its date, set_date((y, m, d)) returns
\* Ok and leaves the date (y, m, d) for every triple that DateTime::new
\* accepts, and set_time((h, m, s, a)) likewise; when either returns
\* Err(RangeError) none of the seven fields has changed
C27_SetDateSetTime ==
    [][SeqValid(t_cal, t_dt) =>
        /\ (t_call'.op = "set_date"
             /\ IsOk(DateTime_new(t_cal, t_call'.arg[1], t_call'.arg[2], t_call'.arg[3],
                                  0, 0, 0, 0)))
              => (t_res' = "Ok" /\ DateTime_date(t_dt') = t_call'.arg)
        /\ (t_call'.op = "set_time"
             /\ IsOk(DateTime_new(t_cal, 1, 1, 1, t_call'.arg[1], t_call'.arg[2],
                                  t_call'.arg[3], t_call'.arg[4])))
              => (t_res' = "Ok" /\ time(t_dt') = t_call'.arg)
        /\ (t_call'.op \in {"set_date", "set_time"} /\ t_res' = "RangeError")
              => fields(t_dt') = fields(t_dt)]_vars

\* set_time returns Ok and leaves the time for every time that DateTime::new
\* accepts, and a set_date that returns Ok leaves the date it was given
C27_SetTimeAccepts ==
    [][/\ (t_call'.op = "set_time"
             /\ IsOk(DateTime_new(t_cal, 1, 1, 1, t_call'.arg[1], t_call'.arg[2],
                                  t_call'.arg[3], t_call'.arg[4])))
              => (t_res' = "Ok" /\ time(t_dt') = t_call'.arg)
       /\ (t_call'.op = "set_date" /\ t_res' = "Ok") => DateTime_date(t_dt') = t_call'.arg]_vars

\* ------------------------------------------------------------------------
\* SpecAdv: the day number of a valid date, of the day after it, and of the
\* first days of its year and of the next
\* ------------------------------------------------------------------------

AdvYearBound == 12

AdvYears == (-AdvYearBound .. AdvYearBound) \cup {I32_MIN, -400, -100, 1582, 1900, 2000}

AdvDates(C) ==
    {ymd \in AdvYears \X (1 .. 12) \X (1 .. 31) : ymd[3] <= month_days(C, ymd[2], ymd[1])}

\* the calendar day after ymd: the next day of the month, the first of the
\* next month, or the first of January of the next year
NextDay(C, ymd) ==
    IF ymd[3] < month_days(C, ymd[2], ymd[1]) THEN <<ymd[1], ymd[2], ymd[3] + 1>>
    ELSE IF ymd[2] < 12 THEN <<ymd[1], ymd[2] + 1, 1>>
    ELSE <<ymd[1] + 1, 1, 1>>

AdvInit ==
    /\ c_cal \in Calendars
    /\ c_date \in AdvDates(c_cal)
    /\ c_dn = None
    /\ c_back = None
    /\ overflow_checks = TRUE
    /\ CalRestIdle

AdvDayNumber ==
    /\ c_dn = None
    /\ c_dn' = day_number(c_cal, c_date[1], c_date[2], WInt(c_date[3]))
    /\ UNCHANGED <<c_cal, c_date, c_back>>
    /\ UNCHANGED rest_cal

\* day_number of the day after c_date, of 1 January of its year and of
\* 1 January of the next
AdvFollowing ==
    /\ IsOk(c_dn)
    /\ ~IsOk(c_back)
    /\ c_back' =
         Ok([next |-> Let([n \in {NextDay(c_cal, c_date)} |->
                        day_number(c_cal, n[1], n[2], WInt(n[3]))]),
             jan1 |-> day_number(c_cal, c_date[1], 1, WInt(1)),
             jan1_after |-> day_number(c_cal, c_date[1] + 1, 1, WInt(1))])
    /\ UNCHANGED <<c_cal, c_date, c_dn>>
    /\ UNCHANGED rest_cal

AdvNext == AdvDayNumber \/ AdvFollowing

SpecAdv == AdvInit /\ [][AdvNext]_vars

AdvByOne(back) ==
    /\ IsOk(back.next)
    /\ back.next.val = WAdd(c_dn.val, WInt(1))

AdvYearLength(back) ==
    /\ IsOk(back.jan1) /\ IsOk(back.jan1_after)
    /\ WSub(back.jan1_after.val, back.jan1.val)
         = WInt(IF is_year_leap(c_cal, c_date[1]) THEN 366 ELSE 365)

\* C26: the day after a valid date has the day number one greater, within a
\* month, across the end of a month and across the end of a year, so that no
\* day number is shared or skipped; and from 1 January of a year to 1 January
\* of the next there are 366 days exactly when is_year_leap holds of the
\* year, 365 otherwise, for years at and below 0 too
C26_DayNumberAdvances ==
    IsOk(c_back) => (AdvByOne(c_back.val) /\ AdvYearLength(c_back.val))

\* the same for the dates of the years from 0 on
C26_FromYearZero ==
    (IsOk(c_back) /\ c_date[1] >= 0) => (AdvByOne(c_back.val) /\ AdvYearLength(c_back.val))

\* below year 0 the step that fails is the one onto 1 March, and the year
\* whose length is wrong is a leap year or the year after one
C26_BelowYearZero ==
    IsOk(c_back) =>
        /\ ~AdvByOne(c_back.val) => (NextDay(c_cal, c_date)[2] = 3 /\ NextDay(c_cal, c_date)[3] = 1)
        /\ ~AdvYearLength(c_back.val) => (c_date[1] % 4 = 0 \/ (c_date[1] - 1) % 4 = 0)

\* C28: for every NTP date (s, a) with 0 <= a below one second,
\* from_ntp_date(s, a).as_ntp_date() is (s, a) again; the Instant that
\* from_ntp_date returns is never inside a leap second; and for the NTP
\* second T of a table entry from_ntp_date(T, 0) is that entry's leap instant,
\* Epoch::Y1977 for 2429913600
C28_NtpRightInverse ==
    /\ n_i # None => n_i = n_ntp
    /\ n_back # None =>
          /\ ~InsideALeap(n_back.val)
          /\ \A k \in 1 .. Len(IANA_NTP_LEAP_SECONDS) :
                n_ntp.val = <<IANA_NTP_LEAP_SECONDS[k], 0>> => n_back.val = leap_instant(k)
          /\ n_ntp.val = <<WDec(2429, 913600), 0>> => n_back.val = Epoch_Y1977

\* the same for the NTP dates from the NTP epoch on
C28_FromNtpEpochOn ==
    ~WIsNeg(n_ntp.val[1]) =>
        /\ n_i # None => n_i = n_ntp
        /\ n_back # None =>
              /\ ~InsideALeap(n_back.val)
              /\ \A k \in 1 .. Len(IANA_NTP_LEAP_SECONDS) :
                    n_ntp.val = <<IANA_NTP_LEAP_SECONDS[k], 0>> => n_back.val = leap_instant(k)
              /\ n_ntp.val = <<WDec(2429, 913600), 0>> => n_back.val = Epoch_Y1977

\* ------------------------------------------------------------------------
\* SpecOrd: an Instant i and a Duration d, both normalized, are compared and
\* combined (duration.rs, instant.rs)
\* ------------------------------------------------------------------------

OrdMaxSecs == 2

OrdPool ==
    {Duration_new(WInt(s), a) :
        s \in -OrdMaxSecs .. OrdMaxSecs,
        a \in {-(ATTOS_PER_SEC_I64 - 1), -1, 0, 1, ATTOS_PER_SEC_I64 - 1}}
    \cup {Epoch_Ntp, Epoch_Y2k, Duration_neg(Epoch_Y2k)}

\* d_val is the pair of the Instant i and the Duration d
OrdInit ==
    /\ d_val \in [i : OrdPool, d : OrdPool]
    /\ d_op = None
    /\ overflow_checks = TRUE
    /\ DurRestIdle

\* i.0 < d and i.0 == d as derived
OrdCompare ==
    /\ ~IsOk(d_op)
    /\ d_op' = Ok([op |-> "cmp", lt |-> Duration_lt(d_val.i, d_val.d), eq |-> d_val.i = d_val.d])
    /\ UNCHANGED d_val
    /\ UNCHANGED rest_dur

\* i + d, (i + d) - i and (i + d) - d
OrdAddSub ==
    /\ IsOk(d_op)
    /\ d_op.val.op = "cmp"
    /\ d_op' = Ok([op |-> "addsub",
                   sum |-> Instant_add(d_val.i, d_val.d),
                   less_i |-> Duration_sub(Instant_add(d_val.i, d_val.d), d_val.i),
                   less_d |-> Instant_sub(Instant_add(d_val.i, d_val.d), d_val.d)])
    /\ UNCHANGED d_val
    /\ UNCHANGED rest_dur

OrdNext == OrdCompare \/ OrdAddSub

SpecOrd == OrdInit /\ [][OrdNext]_vars

\* secs * 10^18 + attos in sub-second units, the number that a Duration stands for
OrdValue(d) == WAdd(WMul(d.secs, ATTOS_PER_SEC_I64), WInt(d.attos))

\* C29: the derived ordering and equality of normalized values, by secs and
\* then attos, are those of the numbers secs * 10^18 + attos; and
\* (i + d) - i is d and (i + d) - d is i
C29_OrderAndInverse ==
    IsOk(d_op) =>
        /\ d_op.val.op = "cmp" =>
              /\ d_op.val.lt <=> WLt(OrdValue(d_val.i), OrdValue(d_val.d))
              /\ d_op.val.eq <=> OrdValue(d_val.i) = OrdValue(d_val.d)
        /\ d_op.val.op = "addsub" =>
              /\ d_op.val.less_i = d_val.d
              /\ d_op.val.less_d = d_val.i
              /\ OrdValue(d_op.val.sum) = WAdd(OrdValue(d_val.i), OrdValue(d_val.d))

\* an Instant less than a second below zero and a Duration that takes it
\* above zero have been added and taken apart again
C29_Witness ==
    /\ IsOk(d_op) /\ d_op.val.op = "addsub"
    /\ d_val.i = Duration_new(WInt(0), -1)
    /\ d_val.d = Duration_new(WInt(1), ATTOS_PER_SEC_I64 - 1)
    /\ d_op.val.sum = Duration_new(WInt(1), ATTOS_PER_SEC_I64 - 2)
    /\ d_op.val.less_i = d_val.d /\ d_op.val.less_d = d_val.i

\* ------------------------------------------------------------------------
\* SpecCi: a DateTime, its conversion to the other calendar, and the
\* Instants of the two in each time standard
\* ------------------------------------------------------------------------

CiInit ==
    /\ x_from \in Calendars
    /\ x_dt \in XcInputs(x_from)
    /\ x_conv = None /\ x_back = None
    /\ overflow_checks = TRUE
    /\ XcRestIdle

CiConvert ==
    /\ x_conv = None
    /\ x_conv' = try_from_calendar(x_from, x_dt)
    /\ UNCHANGED <<x_from, x_dt, x_back>>
    /\ UNCHANGED rest_xc

\* x_back holds Instant::from(x_dt) and Instant::from of the conversion, for
\* each standard S
CiInstants ==
    /\ IsOk(x_conv) /\ x_back = None
    /\ x_back' = Ok([own |-> [S \in Standards |-> Instant_from_DateTime(x_from, S, x_dt)],
                     conv |-> [S \in Standards |->
                                 Instant_from_DateTime(Other(x_from), S, x_conv.val)]])
    /\ UNCHANGED <<x_from, x_dt, x_conv>>
    /\ UNCHANGED rest_xc

CiNext == CiConvert \/ CiInstants

SpecCi == CiInit /\ [][CiNext]_vars

\* C30: a valid DateTime<Julian, S> whose conversion to the Gregorian
\* calendar succeeds, and the DateTime<Gregorian, S> it is converted to, are
\* the same Instant, and the same from Gregorian to Julian, for each S;
\* Epoch::JulianCalendar is 172800 s before Epoch::GregorianCalendar and the
\* conversion copies the time fields
C30_SameInstant ==
    /\ x_back # None =>
          /\ \A S \in Standards : x_back.val.conv[S] = x_back.val.own[S]
          /\ time(x_conv.val) = time(x_dt)
    /\ Epoch_JulianCalendar = Instant_sub(Epoch_GregorianCalendar, Duration_new(WInt(172800), 0))

\* a Julian date of a negative year, at 23:59:60, has been converted and the
\* Instants of the two read
C30_Witness ==
    /\ x_back # None /\ x_from = "Julian"
    /\ year(x_dt) < 0 /\ second(x_dt) = 60
    /\ DateTime_date(x_conv.val) # DateTime_date(x_dt)
    /\ x_back.val.conv["UTC"] = x_back.val.own["UTC"]

====
